---- MODULE Spec2Model ----
(***************************************************************************)
(* Model of the scoring module src/src/bayesian.js of AI_2027_Widgets:     *)
(* calculateLogScore and comparePredictions, as a state machine whose      *)
(* actions are calls of the two exported functions.                        *)
(*                                                                         *)
(* Representation of JavaScript numbers.                                   *)
(*  - A vector entry is an Int (a whole-number weight; exact).  The two    *)
(*    integers above MaxFiniteEntry stand for the doubles that are not     *)
(*    finite, +Infinity and NaN.                                           *)
(*  - A mass or a percentage is a grid number [c, e] standing for the real *)
(*    c/100 + e * 1e-12: c counts hundredths, e counts multiples of the    *)
(*    1e-12 tolerance of calculateLogScore.  |e| stays far below 1e10, so  *)
(*    the order of grid numbers is the lexicographic order of (c, e), and  *)
(*    sums and differences are taken componentwise.                        *)
(*  - A score is a float [k, v]: k = "num" with v the value in units of    *)
(*    1e-5 (fixed point), or k = "inf", "ninf", "nan" for +Infinity,       *)
(*    -Infinity and NaN, or k = "null" for JavaScript's null.  A number    *)
(*    also has a fine part e in units of 1e-14 (a hundredth of the         *)
(*    tolerance): it is the first-order effect of the fine parts of the    *)
(*    masses, so that [k = "num", v, e] stands for v * 1e-5 + e * 1e-14    *)
(*    and is negative iff v < 0, or v = 0 and e < 0.                       *)
(*  - Math.log is computed from the prime factorisation of its argument    *)
(*    with ln 2, ln 3, ln 5, ln 7 rounded to 1e-5; a product with a        *)
(*    fraction is rounded down to the unit.                                *)
(*  - Math.exp returns a positive number kept by its exponent: [k, v] with *)
(*    k = "exp" stands for e^(v * 1e-5), which is > 1 iff v > 0.           *)
(*  - calculateKLDivergence (src/KL-divergence.js) is imported by the      *)
(*    tests but its file is not among the sources; it is modelled from     *)
(*    section 4.1 of the specification.                                    *)
(*                                                                         *)
(* Model of the interactive widget, createInteractiveWidget of             *)
(* src/src/interactive-widget.js: the distributions, the URL fragment and  *)
(* the handlers of the pointer, of navigation and of the widget's methods. *)
(*  - A string is a sequence of one-character strings.                     *)
(*  - A probability is an Int counting millionths, so that                 *)
(*    FLOOR_PROBABILITY_EPSILON is 1; a product with a scaling factor is   *)
(*    rounded down to a millionth.                                         *)
(*  - A URL fragment is the list of the parts of its parameter d.          *)
(*  - Pointer positions are held in data coordinates.  The guideline's     *)
(*    pixel position and guidelineScaleFactor only drive the drawing and   *)
(*    are left out; whether a pointer goes down on the guideline's label   *)
(*    is an input of the event.                                            *)
(*  - A stroke goes on along one period or along one height.               *)
(*                                                                         *)
(* Model of the distribution widget, createDistributionWidget of           *)
(* src/src/index.js: the array of the distribution and the handlers of     *)
(* the pointer, with the conventions of the interactive widget.            *)
(*  - An empty slot of an array is the value -1.                           *)
(*  - The plot has a positive width and height.                            *)
(***************************************************************************)
EXTENDS Integers, Sequences, FiniteSets, TLC

VARIABLES pc, call, ret

\* the state of a widget made by createInteractiveWidget
VARIABLES widget, enableUrlState, hash, distributions, activeDistributionIndex,
          visibilityState, originalValues, userModifiedValues,
          guidelineManuallySet, isDrawing, isDraggingGuideline, lastX, lastY,
          urlUpdateTimeout, timers, hashChangeTasks, events

\* the state of a widget made by createDistributionWidget, which has its own
\* isDrawing, lastX and lastY
VARIABLES distribution, interactive

callVars == <<pc, call, ret>>

distributionWidgetVars == <<distribution, interactive>>

widgetVars ==
    <<widget, enableUrlState, hash, distributions, activeDistributionIndex, visibilityState,
      originalValues, userModifiedValues, guidelineManuallySet, isDrawing,
      isDraggingGuideline, lastX, lastY, urlUpdateTimeout, timers,
      hashChangeTasks, events>>

\* the handle of the timer of debouncedUrlUpdate and the active timers of
\* the window
timerVars == <<urlUpdateTimeout, timers>>

vars == <<callVars, widgetVars, distributionWidgetVars>>

----------------------------------------------------------------------------
(* Bounds of the model *)

\* longest vector a call is given
MaxLen == 2
\* most chunks of three characters in a string given to decodeDistributionValues,
\* and most values in an array given to encodeDistributionValues
MaxChunks == 2
\* most distribution parts in a URL fragment the browser is sent to
MaxParts == 2
\* most user events (pointer events, calls of the widget's methods, navigations)
\* a widget receives
MaxEvents == 2
\* masses are taken up to MaxFine tolerances away from 0 and from 1
MaxFine == 2

----------------------------------------------------------------------------
(* Grid numbers: masses, percentages and the tolerance *)

Num(c, e) == [c |-> c, e |-> e, nan |-> FALSE]

\* the double NaN as a mass or a percentage
NaNNum == [c |-> 0, e |-> 0, nan |-> TRUE]

FromInt(n) == Num(100 * n, 0)

\* the comparisons of JavaScript: false when either side is NaN
Lt(x, y) ==
    /\ ~x.nan
    /\ ~y.nan
    /\ (x.c < y.c \/ (x.c = y.c /\ x.e < y.e))

Le(x, y) ==
    /\ ~x.nan
    /\ ~y.nan
    /\ (x.c < y.c \/ (x.c = y.c /\ x.e <= y.e))

Gt(x, y) == Lt(y, x)

Minus(x, y) ==
    IF x.nan \/ y.nan THEN NaNNum ELSE Num(x.c - y.c, x.e - y.e)

Plus(x, y) ==
    IF x.nan \/ y.nan THEN NaNNum ELSE Num(x.c + y.c, x.e + y.e)

NegNum(x) == IF x.nan THEN NaNNum ELSE Num(0 - x.c, 0 - x.e)

One == FromInt(1)

Zero == FromInt(0)

\* x / 100 for a percentage x = c/100 + e * 1e-12 whose c and e are multiples of 100
Div100(x) == IF x.nan THEN NaNNum ELSE Num(x.c \div 100, x.e \div 100)

----------------------------------------------------------------------------
(* Floats: scores *)

\* the number v * 1e-5 + e * 1e-14
Fine(v, e) == [k |-> "num", v |-> v, e |-> e]

Finite(v) == Fine(v, 0)

Infinity == [k |-> "inf", v |-> 0, e |-> 0]

NegInfinity == [k |-> "ninf", v |-> 0, e |-> 0]

NaN == [k |-> "nan", v |-> 0, e |-> 0]

Null == [k |-> "null", v |-> 0, e |-> 0]

Number_isFinite(x) == x.k = "num"

FNeg(x) ==
    CASE x.k = "num" -> Fine(0 - x.v, 0 - x.e)
      [] x.k = "inf" -> NegInfinity
      [] x.k = "ninf" -> Infinity
      [] OTHER -> NaN

FAdd(x, y) ==
    CASE x.k = "nan" \/ y.k = "nan" -> NaN
      [] x.k = "num" /\ y.k = "num" -> Fine(x.v + y.v, x.e + y.e)
      [] x.k = "num" -> y
      [] y.k = "num" -> x
      [] x.k = y.k -> x
      [] OTHER -> NaN

FSub(x, y) == FAdd(x, FNeg(y))

\* x < y of JavaScript: false when either side is NaN
FLt(x, y) ==
    CASE x.k = "nan" \/ y.k = "nan" -> FALSE
      [] x.k = "num" /\ y.k = "num" -> x.v < y.v \/ (x.v = y.v /\ x.e < y.e)
      [] x.k = "ninf" -> y.k # "ninf"
      [] x.k = "num" -> y.k = "inf"
      [] OTHER -> FALSE

FAbs(x) ==
    CASE x.k = "num" -> IF FLt(x, Finite(0)) THEN FNeg(x) ELSE x
      [] x.k \in {"inf", "ninf"} -> Infinity
      [] OTHER -> NaN

\* (n / d) * x for integers n and d > 0
FScale(n, d, x) ==
    CASE x.k = "nan" -> NaN
      [] x.k = "num" -> Fine((n * x.v) \div d, (n * x.e) \div d)
      [] n = 0 -> NaN
      [] (n > 0) = (x.k = "inf") -> Infinity
      [] OTHER -> NegInfinity

\* m * x for a grid number m = m.c/100 + m.e * 1e-12: the fine part of the
\* product is (m.c/100) * x.e from the fine part of x and, in units of 1e-14,
\* m.e * x.v / 1000 from the fine part of m
MulMass(m, x) ==
    CASE x.k = "nan" \/ m.nan -> NaN
      [] x.k = "num" -> Fine((m.c * x.v) \div 100,
                             (m.c * x.e) \div 100 + (m.e * x.v) \div 1000)
      [] m = Zero -> NaN
      [] Gt(m, Zero) = (x.k = "inf") -> Infinity
      [] OTHER -> NegInfinity

----------------------------------------------------------------------------
(* Math.log *)

\* ln p in units of 1e-5 for the primes the model's arguments factor into
LnPrime(p) ==
    CASE p = 2 -> 69315
      [] p = 3 -> 109861
      [] p = 5 -> 160944
      [] p = 7 -> 194591

SmallestPrime(n) ==
    CASE n % 2 = 0 -> 2
      [] n % 2 # 0 /\ n % 3 = 0 -> 3
      [] n % 2 # 0 /\ n % 3 # 0 /\ n % 5 = 0 -> 5
      [] n % 2 # 0 /\ n % 3 # 0 /\ n % 5 # 0 /\ n % 7 = 0 -> 7

RECURSIVE Ln(_)
\* ln n in units of 1e-5, for n >= 1 with prime factors among 2, 3, 5, 7
Ln(n) ==
    IF n = 1 THEN 0
    ELSE LnPrime(SmallestPrime(n)) + Ln(n \div SmallestPrime(n))

\* ln 1e-12
LnTolerance == 0 - 12 * (LnPrime(2) + LnPrime(5))

\* Math.log of a grid number; to first order
\* log(c/100 + e * 1e-12) = log(c/100) + (100 * e / c) * 1e-12
MathLogNum(x) ==
    CASE x.nan -> NaN
      [] x.c > 0 -> Fine(Ln(x.c) - Ln(100), (10000 * x.e) \div x.c)
      [] x.c = 0 /\ x.e > 0 -> Finite(Ln(x.e) + LnTolerance)
      [] x.c = 0 /\ x.e = 0 -> NegInfinity
      [] OTHER -> NaN

\* a normalised entry n / d of JavaScript: 0/0 is NaN, n/0 is +-Infinity
Ratio(n, d) == [n |-> n, d |-> d]

\* r <= 0 of JavaScript
RatioLeZero(r) ==
    IF r.d = 0 THEN r.n < 0
    ELSE r.n = 0 \/ ((r.n < 0) # (r.d < 0))

\* Math.log of a normalised entry
MathLogRatio(r) ==
    CASE r.d = 0 /\ r.n > 0 -> Infinity
      [] r.d = 0 /\ r.n <= 0 -> NaN
      [] r.d # 0 /\ r.n = 0 -> NegInfinity
      [] r.d # 0 /\ r.n # 0 /\ ((r.n < 0) # (r.d < 0)) -> NaN
      [] OTHER -> Finite(Ln(IF r.n < 0 THEN 0 - r.n ELSE r.n)
                         - Ln(IF r.d < 0 THEN 0 - r.d ELSE r.d))

\* -q * x for a normalised entry q
MinusRatioTimes(q, x) ==
    IF q.d = 0 THEN NaN
    ELSE IF q.d > 0 THEN FScale(0 - q.n, q.d, x)
    ELSE FScale(q.n, 0 - q.d, x)

----------------------------------------------------------------------------
(* calculateLogScore *)

tolerance == Num(0, 1)

onePlusTol == Plus(One, tolerance)

Return(x) == [tag |-> "return", msg |-> "", was |-> Zero, value |-> x]

Throw(text, x) == [tag |-> "throw", msg |-> text, was |-> x, value |-> NaN]

RECURSIVE Sum(_)
\* vector.reduce((sum, v) => sum + v, 0)
Sum(vector) ==
    IF vector = <<>> THEN 0
    ELSE Sum(SubSeq(vector, 1, Len(vector) - 1)) + vector[Len(vector)]

\* the largest entry that stands for itself: MaxFiniteEntry + 1 stands for
\* an entry +Infinity and MaxFiniteEntry + 2 for an entry NaN
MaxFiniteEntry == 2

InfinityEntry == MaxFiniteEntry + 1

NaNEntry == MaxFiniteEntry + 2

\* Number.isFinite(v) for an entry v
Number_isFiniteEntry(v) == v <= MaxFiniteEntry

\* vector.some(v => !Number.isFinite(v))
SomeNotFinite(vector) ==
    \E i \in 1..Len(vector) : ~Number_isFiniteEntry(vector[i])

\* vector.some(v => v < -tolerance)
SomeNegative(vector) ==
    \E i \in 1..Len(vector) : Lt(FromInt(vector[i]), NegNum(tolerance))

\* ElementError with the length-0 check made before the comparison of the lengths
ElementError_EmptyFirst(prediction, truth) ==
    IF Len(prediction) = 0
    THEN "Distributions must have at least one entry"
    ELSE IF Len(prediction) # Len(truth)
    THEN "Distributions must have the same shape"
    ELSE IF SomeNotFinite(prediction) \/ SomeNotFinite(truth)
    THEN "Distributions must be finite"
    ELSE IF SomeNegative(prediction) \/ SomeNegative(truth)
    THEN "Distributions cannot contain negative values"
    ELSE ""

\* the checks of the distribution elements, in the order of the code
ElementError(prediction, truth) ==
    IF Len(prediction) # Len(truth)
    THEN "Distributions must have the same shape"
    ELSE IF Len(prediction) = 0
    THEN "Distributions must have at least one entry"
    ELSE IF SomeNotFinite(prediction) \/ SomeNotFinite(truth)
    THEN "Distributions must be finite"
    ELSE IF SomeNegative(prediction) \/ SomeNegative(truth)
    THEN "Distributions cannot contain negative values"
    ELSE ""

\* the checks of the total masses, in the order of the code
MassError(predMass, truthMass) ==
    IF Gt(predMass, onePlusTol)
    THEN Throw("Prediction mass cannot exceed 1, but was ", predMass)
    ELSE IF Gt(truthMass, onePlusTol)
    THEN Throw("Ground truth mass cannot exceed 1, but was ", truthMass)
    ELSE IF Le(predMass, NegNum(tolerance))
    THEN Throw("Prediction mass cannot be negative, but was ", predMass)
    ELSE IF Le(truthMass, NegNum(tolerance))
    THEN Throw("Ground truth mass cannot be negative, but was ", truthMass)
    ELSE Return(NaN)

\* ZeroMassEdge with predMass < tolerance for predMass <= tolerance
ZeroMassEdge_Strict(predMass, truthMass) ==
    Lt(predMass, tolerance) /\ Gt(truthMass, tolerance)

\* nothing was put on the event that might have occurred
ZeroMassEdge(predMass, truthMass) ==
    Le(predMass, tolerance) /\ Gt(truthMass, tolerance)

\* FullMassEdge without its test of the truth mass
FullMassEdge_IgnoresTruth(predMass, truthMass) ==
    Le(Minus(One, predMass), tolerance)

\* everything was bet on an event that might not have happened
FullMassEdge(predMass, truthMass) ==
    Le(Minus(One, predMass), tolerance) /\ Gt(Minus(One, truthMass), tolerance)

NormalizePrediction(prediction, predMass) ==
    LET predDenominator == Sum(prediction)
    IN  IF Gt(predMass, tolerance) /\ Lt(FromInt(predDenominator), tolerance)
        THEN [i \in 1..Len(prediction) |-> Ratio(1, Len(prediction))]
        ELSE [i \in 1..Len(prediction) |-> Ratio(prediction[i], predDenominator)]

NormalizeTruth(truth) ==
    LET truthDenominator == Sum(truth)
    IN  IF Lt(FromInt(truthDenominator), tolerance)
        THEN [i \in 1..Len(truth) |-> Ratio(1, Len(truth))]
        ELSE [i \in 1..Len(truth) |-> Ratio(truth[i], truthDenominator)]

RECURSIVE CrossEntropyLoop_PredictionFirst(_, _, _, _)
\* CrossEntropyLoop with p <= 0 tested before q <= 0
CrossEntropyLoop_PredictionFirst(Q, P, i, crossEntropy) ==
    IF i > Len(Q) THEN [returned |-> FALSE, value |-> crossEntropy]
    ELSE IF RatioLeZero(P[i]) THEN [returned |-> TRUE, value |-> Infinity]
    ELSE IF RatioLeZero(Q[i])
    THEN CrossEntropyLoop_PredictionFirst(Q, P, i + 1, crossEntropy)
    ELSE CrossEntropyLoop_PredictionFirst(Q, P, i + 1,
             FAdd(crossEntropy, MinusRatioTimes(Q[i], MathLogRatio(P[i]))))

RECURSIVE CrossEntropyLoop(_, _, _, _)
\* the loop over the bins from bin i on, crossEntropy being the sum so far;
\* returned = TRUE when the loop leaves the function with +Infinity
CrossEntropyLoop(Q, P, i, crossEntropy) ==
    IF i > Len(Q) THEN [returned |-> FALSE, value |-> crossEntropy]
    ELSE IF RatioLeZero(Q[i]) THEN CrossEntropyLoop(Q, P, i + 1, crossEntropy)
    ELSE IF RatioLeZero(P[i]) THEN [returned |-> TRUE, value |-> Infinity]
    ELSE CrossEntropyLoop(Q, P, i + 1,
             FAdd(crossEntropy, MinusRatioTimes(Q[i], MathLogRatio(P[i]))))

ConditionalScore(truthMass, crossEntropy) ==
    IF Gt(truthMass, tolerance) THEN MulMass(truthMass, crossEntropy) ELSE Finite(0)

\* EventTerm without the term truthMass * log(predMass)
EventTerm_Dropped(predMass, truthMass) == Finite(0)

EventTerm(predMass, truthMass) ==
    IF Gt(truthMass, tolerance) THEN MulMass(truthMass, MathLogNum(predMass))
    ELSE Finite(0)

NoEventTerm(predMass, truthMass) ==
    IF Gt(Minus(One, truthMass), tolerance)
    THEN MulMass(Minus(One, truthMass), MathLogNum(Minus(One, predMass)))
    ELSE Finite(0)

\* calculateLogScore with the two edge cases of the masses tested before the
\* validation of the input
calculateLogScore_EdgeCasesFirst(prediction, predProb, truth, truthProb) ==
    LET predMass == Div100(predProb)
        truthMass == Div100(truthProb)
        loop == CrossEntropyLoop(NormalizeTruth(truth),
                                 NormalizePrediction(prediction, predMass),
                                 1, Finite(0))
    IN  IF ZeroMassEdge(predMass, truthMass) THEN Return(Infinity)
        ELSE IF FullMassEdge(predMass, truthMass) THEN Return(Infinity)
        ELSE IF ElementError(prediction, truth) # ""
        THEN Throw(ElementError(prediction, truth), Zero)
        ELSE IF MassError(predMass, truthMass).tag = "throw"
        THEN MassError(predMass, truthMass)
        ELSE IF loop.returned THEN Return(loop.value)
        ELSE Return(FSub(FSub(ConditionalScore(truthMass, loop.value),
                              EventTerm(predMass, truthMass)),
                         NoEventTerm(predMass, truthMass)))

calculateLogScore(prediction, predProb, truth, truthProb) ==
    LET predMass == Div100(predProb)
        truthMass == Div100(truthProb)
        loop == CrossEntropyLoop(NormalizeTruth(truth),
                                 NormalizePrediction(prediction, predMass),
                                 1, Finite(0))
    IN  IF ElementError(prediction, truth) # ""
        THEN Throw(ElementError(prediction, truth), Zero)
        ELSE IF MassError(predMass, truthMass).tag = "throw"
        THEN MassError(predMass, truthMass)
        ELSE IF ZeroMassEdge(predMass, truthMass) THEN Return(Infinity)
        ELSE IF FullMassEdge(predMass, truthMass) THEN Return(Infinity)
        ELSE IF loop.returned THEN Return(loop.value)
        ELSE Return(FSub(FSub(ConditionalScore(truthMass, loop.value),
                              EventTerm(predMass, truthMass)),
                         NoEventTerm(predMass, truthMass)))

----------------------------------------------------------------------------
(* comparePredictions *)

\* the tolerance 1e-10 of comparePredictions in the score unit of 1e-5,
\* rounded down: a score difference d on the grid has |d| > 1e-10 iff |d| > 0
compareTolerance == 0

\* a positive real e^x, kept by its exponent x (in units of 1e-5)
Exp(v) == [k |-> "exp", v |-> v]

MathExp(x) ==
    CASE x.k = "num" -> Exp(x.v)
      [] x.k = "inf" -> Infinity
      [] x.k = "ninf" -> Finite(0)
      [] OTHER -> NaN

\* Winning without the tolerance test on two finite scores
Winning_NoTolerance(first, second) ==
    IF Number_isFinite(first) /\ Number_isFinite(second)
    THEN IF FLt(first, second) THEN "prediction1" ELSE "prediction2"
    ELSE IF Number_isFinite(first) /\ ~Number_isFinite(second) THEN "prediction1"
    ELSE IF ~Number_isFinite(first) /\ Number_isFinite(second) THEN "prediction2"
    ELSE "tie"

\* Winning without the two branches for exactly one finite score
Winning_FiniteOnly(first, second) ==
    IF Number_isFinite(first) /\ Number_isFinite(second)
    THEN IF FLt(Finite(compareTolerance), FAbs(FSub(first, second)))
         THEN IF FLt(first, second) THEN "prediction1" ELSE "prediction2"
         ELSE "tie"
    ELSE "tie"

\* Winning with prediction 1 named when neither score is finite
Winning_InfiniteFirst(first, second) ==
    IF Number_isFinite(first) /\ Number_isFinite(second)
    THEN IF FLt(Finite(compareTolerance), FAbs(FSub(first, second)))
         THEN IF FLt(first, second) THEN "prediction1" ELSE "prediction2"
         ELSE "tie"
    ELSE IF Number_isFinite(first) /\ ~Number_isFinite(second) THEN "prediction1"
    ELSE IF ~Number_isFinite(first) /\ Number_isFinite(second) THEN "prediction2"
    ELSE "prediction1"

Winning(first, second) ==
    IF Number_isFinite(first) /\ Number_isFinite(second)
    THEN IF FLt(Finite(compareTolerance), FAbs(FSub(first, second)))
         THEN IF FLt(first, second) THEN "prediction1" ELSE "prediction2"
         ELSE "tie"
    ELSE IF Number_isFinite(first) /\ ~Number_isFinite(second) THEN "prediction1"
    ELSE IF ~Number_isFinite(first) /\ Number_isFinite(second) THEN "prediction2"
    ELSE "tie"

\* Gap computed as soon as one of the scores is finite
Gap_EitherFinite(first, second) ==
    IF Number_isFinite(first) \/ Number_isFinite(second)
    THEN FSub(second, first)
    ELSE Null

\* Gap with the operands of the subtraction exchanged
Gap_FirstMinusSecond(first, second) ==
    IF Number_isFinite(first) /\ Number_isFinite(second)
    THEN FSub(first, second)
    ELSE Null

\* Gap as the distance of the two scores
Gap_Distance(first, second) ==
    IF Number_isFinite(first) /\ Number_isFinite(second)
    THEN FAbs(FSub(second, first))
    ELSE Null

Gap(first, second) ==
    IF Number_isFinite(first) /\ Number_isFinite(second)
    THEN FSub(second, first)
    ELSE Null

Factor(first, second) ==
    IF Number_isFinite(first) /\ Number_isFinite(second)
    THEN MathExp(FNeg(Gap(first, second)))
    ELSE Null

Comparison(first, second) ==
    [prediction1 |-> [logScore |-> first],
     prediction2 |-> [logScore |-> second],
     winning |-> Winning(first, second),
     gap |-> Gap(first, second),
     factor |-> Factor(first, second)]

comparePredictions(prediction1, predProb1, prediction2, predProb2, truth, truthProb) ==
    LET first == calculateLogScore(prediction1, predProb1, truth, truthProb)
        second == calculateLogScore(prediction2, predProb2, truth, truthProb)
    IN  IF first.tag = "throw" THEN first
        ELSE IF second.tag = "throw" THEN second
        ELSE Return(Comparison(first.value, second.value))

----------------------------------------------------------------------------
(* calculateKLDivergence of KL-divergence.js *)

NormalizeKL(vector) ==
    IF Le(FromInt(Sum(vector)), tolerance)
    THEN [i \in 1..Len(vector) |-> Ratio(1, Len(vector))]
    ELSE [i \in 1..Len(vector) |-> Ratio(vector[i], Sum(vector))]

RECURSIVE DivergenceLoop(_, _, _, _)
DivergenceLoop(Q, P, i, sum) ==
    IF i > Len(Q) THEN sum
    ELSE IF RatioLeZero(Q[i]) THEN DivergenceLoop(Q, P, i + 1, sum)
    ELSE IF RatioLeZero(P[i]) THEN Infinity
    ELSE DivergenceLoop(Q, P, i + 1,
             FAdd(sum, MinusRatioTimes(Q[i],
                           FSub(MathLogRatio(P[i]), MathLogRatio(Q[i])))))

calculateKLDivergence(prediction, truth) ==
    IF Len(prediction) # Len(truth)
    THEN Throw("Distributions must have the same shape", Zero)
    ELSE Return(DivergenceLoop(NormalizeKL(truth), NormalizeKL(prediction),
                               1, Finite(0)))

----------------------------------------------------------------------------
(* Strings and JavaScript values of the URL functions of interactive-widget.js *)

\* A string is a sequence of characters, a character a string of length one.
\* The digits of Number.prototype.toString(36), in the order of their values
Digits36 ==
    <<"0", "1", "2", "3", "4", "5", "6", "7", "8", "9", "a", "b", "c", "d",
      "e", "f", "g", "h", "i", "j", "k", "l", "m", "n", "o", "p", "q", "r",
      "s", "t", "u", "v", "w", "x", "y", "z">>

\* the upper-case forms of Digits36, in the same order
UpperCase36 ==
    <<"0", "1", "2", "3", "4", "5", "6", "7", "8", "9", "A", "B", "C", "D",
      "E", "F", "G", "H", "I", "J", "K", "L", "M", "N", "O", "P", "Q", "R",
      "S", "T", "U", "V", "W", "X", "Y", "Z">>

Radix == 36

CharToUpperCase(c) ==
    IF \E n \in 1..Radix : Digits36[n] = c
    THEN UpperCase36[CHOOSE n \in 1..Radix : Digits36[n] = c]
    ELSE c

\* String.prototype.toUpperCase
ToUpperCase(str) == [i \in 1..Len(str) |-> CharToUpperCase(str[i])]

RECURSIVE ToString36(_)
\* num.toString(36) for an integer num >= 0
ToString36(num) ==
    IF num < Radix THEN <<Digits36[num + 1]>>
    ELSE ToString36(num \div Radix) \o <<Digits36[(num % Radix) + 1]>>

\* PadStart without the padding
PadStart_None(str, targetLength, padChar) == str

RECURSIVE PadStart(_, _, _)
\* String.prototype.padStart with a pad string of one character
PadStart(str, targetLength, padChar) ==
    IF Len(str) >= targetLength THEN str
    ELSE PadStart(<<padChar>> \o str, targetLength, padChar)

\* the value of an upper-case digit
DigitValue(c) == (CHOOSE n \in 1..Radix : UpperCase36[n] = c) - 1

RECURSIVE ParseInt36(_)
\* parseInt(str, 36) for a string of upper-case digits
ParseInt36(str) ==
    IF Len(str) = 0 THEN 0
    ELSE ParseInt36(SubSeq(str, 1, Len(str) - 1)) * Radix
            + DigitValue(str[Len(str)])

\* /^[0-9A-Za-z]{3}$/.test(chunk)
ChunkFormatTest(chunk) ==
    /\ Len(chunk) = 3
    /\ \A i \in 1..Len(chunk) :
          \E n \in 1..Radix : chunk[i] = Digits36[n] \/ chunk[i] = UpperCase36[n]

\* JavaScript values: null, a string, an array of numbers
JsNull == [t |-> "null", s |-> <<>>]

JsString(str) == [t |-> "string", s |-> str]

JsArray(values) == [t |-> "array", s |-> values]

----------------------------------------------------------------------------
(* encodeDistributionValues and decodeDistributionValues *)

\* A probability is an integer number of millionths: ProbabilityOne is 1.
ProbabilityOne == 1000000

FLOOR_PROBABILITY_EPSILON == 1

\* the factor 1000 of the encoding: an encoded integer counts thousandths
EncodingScale == 1000

\* one thousandth, in millionths
Thousandth == ProbabilityOne \div EncodingScale

chunkSize == 3

MathMax(a, b) == IF a >= b THEN a ELSE b

\* Math.round(n / d) for n >= 0 and d > 0: halves are rounded up
MathRound(n, d) == (2 * n + d) \div (2 * d)

\* Math.round(Math.max(FLOOR_PROBABILITY_EPSILON, val) * 1000)
EncodedInteger(val) == MathRound(MathMax(FLOOR_PROBABILITY_EPSILON, val), Thousandth)

\* num.toString(36).toUpperCase().padStart(3, '0')
EncodedChunk(num) == PadStart(ToUpperCase(ToString36(num)), chunkSize, "0")

RECURSIVE JoinFirst(_, _)
\* the first n strings, one after the other
JoinFirst(strings, n) ==
    IF n = 0 THEN <<>> ELSE JoinFirst(strings, n - 1) \o strings[n]

\* strings.join('')
Join(strings) == JoinFirst(strings, Len(strings))

encodeDistributionValues(values) ==
    Join([i \in 1..Len(values) |-> EncodedChunk(EncodedInteger(values[i]))])

\* the callback of chunks.map throws for this chunk
DecodeChunkThrows(chunk) ==
    \/ ~ChunkFormatTest(chunk)
    \/ ParseInt36(ToUpperCase(chunk)) > EncodingScale

\* Math.max(FLOOR_PROBABILITY_EPSILON, num / 1000)
DecodedChunk(chunk) ==
    MathMax(FLOOR_PROBABILITY_EPSILON, ParseInt36(ToUpperCase(chunk)) * Thousandth)

\* Chunks with the chunks taken from the end of the string to its start
Chunks_Reversed(str) ==
    [i \in 1..(Len(str) \div chunkSize) |->
        SubSeq(str, Len(str) - chunkSize * i + 1, Len(str) - chunkSize * (i - 1))]

\* the chunks of three characters of a string whose length is a multiple of 3
Chunks(str) ==
    [i \in 1..(Len(str) \div chunkSize) |->
        SubSeq(str, chunkSize * (i - 1) + 1, chunkSize * i)]

\* the argument is a JavaScript value; the result is JsNull or a JsArray
decodeDistributionValues(encoded) ==
    IF encoded.t # "string" \/ Len(encoded.s) = 0 THEN JsNull
    ELSE IF Len(encoded.s) % chunkSize # 0 THEN JsNull
    ELSE IF \E i \in 1..Len(Chunks(encoded.s)) : DecodeChunkThrows(Chunks(encoded.s)[i])
    THEN JsNull
    ELSE IF \E i \in 1..Len(Chunks(encoded.s)) :
               \/ DecodedChunk(Chunks(encoded.s)[i]) < 0
               \/ DecodedChunk(Chunks(encoded.s)[i]) > ProbabilityOne
    THEN JsNull
    ELSE JsArray([i \in 1..Len(Chunks(encoded.s)) |-> DecodedChunk(Chunks(encoded.s)[i])])

----------------------------------------------------------------------------
(* createInteractiveWidget: the distributions and the URL fragment *)

\* options.endYear - options.startYear + 1 of the widget of the model
numYears == 2

numPeriods == (numYears - 1) * 4 + 1

validColors == <<"blue", "green", "red", "purple", "orange", "yellow">>

\* element index of a JavaScript array or object held as a sequence or function
IndexOf(array) == 0..(Len(array) - 1)

\* 0.2 + (0.8 * i / (numPeriods - 1)) for i = 0 .. numPeriods - 1
initialValues ==
    [n \in 1..numPeriods |->
        ProbabilityOne \div 5
            + (4 * (ProbabilityOne \div 5) * (n - 1)) \div (numPeriods - 1)]

Distribution(color, values) == [color |-> color, mass |-> 100, values |-> values]

\* the distributions initializeDefaultDistributions pushes
DefaultDistributions ==
    [n \in 1..Len(validColors) |-> Distribution(validColors[n], initialValues)]

\* A URL fragment is held as the list of the parts of its parameter d, each
\* part as the two fields [color, encodedValues] that part.split(':') is
\* destructured into; a field that is missing or empty is "" or <<>>.  The
\* empty list stands for a hash without a parameter d.
Part(color, encodedValues) == [color |-> color, encodedValues |-> encodedValues]

\* `${dist.color}:${encodedValues}` for every distribution
SerializedFragment(dists) ==
    [n \in 1..Len(dists) |->
        Part(dists[n].color, encodeDistributionValues(dists[n].values))]

HasColor(dists, color) == \E n \in 1..Len(dists) : dists[n].color = color

\* the result of the loop over the parts when it breaks
InvalidDistribution(newDistributions) ==
    [hasInvalidDistribution |-> TRUE, newDistributions |-> newDistributions]

\* ParseParts without the test for a colour that was already loaded
RECURSIVE ParseParts_NoDuplicateTest(_, _)
ParseParts_NoDuplicateTest(parts, newDistributions) ==
    IF parts = <<>>
    THEN [hasInvalidDistribution |-> FALSE, newDistributions |-> newDistributions]
    ELSE IF Head(parts).color = "" \/ Len(Head(parts).encodedValues) = 0
    THEN InvalidDistribution(newDistributions)
    ELSE IF ~HasColor(DefaultDistributions, Head(parts).color)
    THEN InvalidDistribution(newDistributions)
    ELSE LET values == decodeDistributionValues(JsString(Head(parts).encodedValues))
    IN
    IF values = JsNull
    THEN InvalidDistribution(newDistributions)
    ELSE IF Len(values.s) # numPeriods
    THEN InvalidDistribution(newDistributions)
    ELSE ParseParts_NoDuplicateTest(Tail(parts),
             Append(newDistributions, Distribution(Head(parts).color, values.s)))

RECURSIVE ParseParts(_, _)
\* the loop of parseUrlState over the parts still to be read
ParseParts(parts, newDistributions) ==
    IF parts = <<>>
    THEN [hasInvalidDistribution |-> FALSE, newDistributions |-> newDistributions]
    ELSE IF Head(parts).color = "" \/ Len(Head(parts).encodedValues) = 0
    THEN InvalidDistribution(newDistributions)
    ELSE IF ~HasColor(DefaultDistributions, Head(parts).color)
    THEN InvalidDistribution(newDistributions)
    ELSE LET values == decodeDistributionValues(JsString(Head(parts).encodedValues))
    IN
    IF values = JsNull
    THEN InvalidDistribution(newDistributions)
    ELSE IF Len(values.s) # numPeriods
    THEN InvalidDistribution(newDistributions)
    ELSE IF HasColor(newDistributions, Head(parts).color)
    THEN InvalidDistribution(newDistributions)
    ELSE ParseParts(Tail(parts),
             Append(newDistributions, Distribution(Head(parts).color, values.s)))

\* the expected colours that newDistributions does not have, in their order
MissingColors(newDistributions) ==
    SelectSeq(validColors, LAMBDA color : ~HasColor(newDistributions, color))

\* WithMissingColors without the default distributions
WithMissingColors_None(newDistributions) == newDistributions

\* newDistributions with a default distribution pushed for each missing colour
WithMissingColors(newDistributions) ==
    newDistributions
        \o [n \in 1..Len(MissingColors(newDistributions)) |->
               Distribution(MissingColors(newDistributions)[n], initialValues)]

\* parseUrlState read as a function of the fragment: whether it returns
\* true, and the distributions it then installs.  Its first test, of
\* enableUrlState, is made where the actions use it.
parseUrlState(fragment) ==
    IF fragment = <<>>
    THEN [restored |-> FALSE, distributions |-> <<>>]
    ELSE LET parsed == ParseParts(fragment, <<>>)
    IN
    IF parsed.hasInvalidDistribution
    THEN [restored |-> FALSE, distributions |-> <<>>]
    ELSE [restored |-> TRUE,
          distributions |-> WithMissingColors(parsed.newDistributions)]

----------------------------------------------------------------------------
(* createInteractiveWidget: drawing, scaling and renormalization *)

MathMin(a, b) == IF a <= b THEN a ELSE b

\* Math.max(...values) of a non-empty array
MaxOf(values) ==
    CHOOSE m \in {values[n] : n \in 1..Len(values)} :
        \A n \in 1..Len(values) : values[n] <= m

RECURSIVE MulDivRem(_, _, _)
\* quotient q and remainder r of v * a by d, for v >= 0, 0 <= a < d:
\* computed by halving v so that no intermediate value leaves 32 bits
MulDivRem(v, a, d) ==
    IF v = 0 THEN [q |-> 0, r |-> 0]
    ELSE LET half == MulDivRem(v \div 2, a, d)
         IN  [q |-> 2 * half.q + (2 * half.r + (v % 2) * a) \div d,
              r |-> (2 * half.r + (v % 2) * a) % d]

\* v * (a / d), rounded down to a millionth
Scaled(v, a, d) == v * (a \div d) + MulDivRem(v, a % d, d).q

\* the largest value the model lets a scaling produce
ValueLimit == 100 * ProbabilityOne

\* multiplying v by a / d gives at most ValueLimit
ScaledWithinLimit(v, a, d) ==
    IF v = 0 THEN TRUE ELSE a \div d + 1 <= ValueLimit \div v

\* Pointer positions are held in data coordinates: x counts periods from the
\* left edge of the plot, y is the probability of the height; both may lie
\* outside the plot.
canvasToData(x, y) ==
    [periodIndex |-> MathMax(0, MathMin(numPeriods - 1, x)),
     probability |-> MathMax(FLOOR_PROBABILITY_EPSILON, MathMin(ProbabilityOne, y))]

\* dists with every value of every distribution multiplied by a / d
ScaleAll(dists, a, d) ==
    [n \in 1..Len(dists) |->
        [dists[n] EXCEPT !.values =
            [i \in 1..Len(dists[n].values) |-> Scaled(dists[n].values[i], a, d)]]]

\* autoScaleDistribution(distributionIndex): the distributions it leaves
autoScaleDistribution(dists, distributionIndex) ==
    IF distributionIndex < 0 \/ distributionIndex >= Len(dists) THEN dists
    ELSE IF MaxOf(dists[distributionIndex + 1].values) <= 0 THEN dists
    ELSE IF MaxOf(dists[distributionIndex + 1].values) > ProbabilityOne
    THEN ScaleAll(dists, ProbabilityOne, MaxOf(dists[distributionIndex + 1].values))
    ELSE dists

\* performRenormalization that scales nothing
performRenormalization_NoScaling(dists, active) == dists

\* performRenormalization: the distributions it leaves when the active
\* distribution has index active
performRenormalization(dists, active) ==
    IF active = 0 - 1 \/ active >= Len(dists) THEN dists
    ELSE IF Sum(dists[active + 1].values) <= 0 THEN dists
    ELSE [n \in 1..Len(dists) |->
            IF n # active + 1 /\ Sum(dists[n].values) > 0
            THEN [dists[n] EXCEPT !.values =
                    [i \in 1..Len(dists[n].values) |->
                        Scaled(dists[n].values[i], Sum(dists[active + 1].values),
                               Sum(dists[n].values))]]
            ELSE dists[n]]

\* performRenormalization goes past its two early returns
Renormalizes(dists, active) ==
    /\ active # 0 - 1
    /\ active < Len(dists)
    /\ Sum(dists[active + 1].values) > 0

\* the values performRenormalization leaves are at most ValueLimit
RenormalizationWithinLimit(dists, active) ==
    Renormalizes(dists, active) =>
        \A n \in 1..Len(dists) : \A i \in 1..Len(dists[n].values) :
            (n # active + 1 /\ Sum(dists[n].values) > 0) =>
                ScaledWithinLimit(dists[n].values[i],
                                  Sum(dists[active + 1].values),
                                  Sum(dists[n].values))

\* the values a scaling of all distributions leaves are at most ValueLimit
ScaleAllWithinLimit(dists, a, d) ==
    \A n \in 1..Len(dists) : \A i \in 1..Len(dists[n].values) :
        ScaledWithinLimit(dists[n].values[i], a, d)

\* the active distribution with probability written at every period from
\* period x1 to period x2, in either direction
Drawn(dists, active, x1, x2, y) ==
    [dists EXCEPT ![active + 1].values =
        [i \in 1..Len(dists[active + 1].values) |->
            IF /\ i - 1 >= canvasToData(MathMin(x1, x2), y).periodIndex
               /\ i - 1 <= canvasToData(MathMax(x1, x2), y).periodIndex
            THEN canvasToData(x1, y).probability
            ELSE dists[active + 1].values[i]]]

\* the distributions with the stored original values put back where the
\* user has not modified them
Restored(dists, originals, modified) ==
    [n \in 1..Len(dists) |->
        IF (n - 1) \in DOMAIN originals /\ (n - 1) \notin modified
        THEN [dists[n] EXCEPT !.values = originals[n - 1]]
        ELSE dists[n]]

\* originalValues after originalValues[index] = [...dist.values] for every
\* distribution of dists
WithOriginalValues(old, dists) ==
    [k \in (DOMAIN old) \cup IndexOf(dists) |->
        IF k \in IndexOf(dists) THEN dists[k + 1].values ELSE old[k]]

\* visibilityState after visibilityState[index] = (index === visible) for
\* every distribution of dists
WithVisibility(old, dists, visible) ==
    [k \in (DOMAIN old) \cup IndexOf(dists) |->
        IF k \in IndexOf(dists) THEN k = visible ELSE old[k]]

----------------------------------------------------------------------------
(* Calls *)

\* the entries of the vectors of a call: -1 stands for a negative entry
Entries == {0 - 1, 0, 1, 2}

Vectors == UNION {[1..n -> Entries] : n \in 0..MaxLen}

\* the vectors with an entry that is not finite
NonFiniteVectors ==
    {v \in UNION {[1..n -> {1, InfinityEntry, NaNEntry}] : n \in 1..MaxLen} :
        SomeNotFinite(v)}

\* percentages whose mass lies within MaxFine tolerances of 0 or of 1, and 50 %
Percents ==
    {Num(100 * c, 100 * e) : c \in {0, 100}, e \in (0 - MaxFine)..MaxFine}
        \cup {Num(5000, 0), NaNNum}

\* the vectors and percentages of the calls of comparePredictions
CompareVectors == {v \in Vectors : \A i \in 1..Len(v) : v[i] \in {0, 1}}

ComparePercents ==
    {Num(0, 0), Num(5000, 0), Num(10000, 0), Num(10000, 100 * MaxFine)}

\* the pairs <<prediction, truth>> of the calls of calculateLogScore
LogScoreVectors ==
    (Vectors \X Vectors)
        \cup (NonFiniteVectors \X CompareVectors)
        \cup (CompareVectors \X NonFiniteVectors)

NoVector == <<>>

NoRet == [tag |-> "none", msg |-> "", was |-> Zero, value |-> NaN]

\* no function of the modules has been called
NoCall ==
    /\ pc = "idle"
    /\ call = [fn |-> "none",
                prediction1 |-> NoVector, predProb1 |-> Zero,
                prediction2 |-> NoVector, predProb2 |-> Zero,
                truth |-> NoVector, truthProb |-> Zero]
    /\ ret = NoRet

\* createInteractiveWidget has not run: the variables of its closure hold
\* their initial values
NoWidget ==
    /\ widget = "none"
    /\ distributions = <<>>
    /\ activeDistributionIndex = 0
    /\ visibilityState = <<>>
    /\ originalValues = <<>>
    /\ userModifiedValues = {}
    /\ guidelineManuallySet = FALSE
    /\ isDrawing = FALSE
    /\ isDraggingGuideline = FALSE
    /\ lastX = 0 - 1
    /\ lastY = ProbabilityOne + ProbabilityOne \div 2
    /\ urlUpdateTimeout = 0
    /\ timers = {}
    /\ hashChangeTasks = 0
    /\ events = 0

\* createDistributionWidget has not run
NoDistributionWidget ==
    /\ distribution = <<>>
    /\ interactive = FALSE

Init ==
    /\ NoCall
    /\ NoWidget
    /\ NoDistributionWidget
    /\ enableUrlState = TRUE
    /\ hash = <<>>

CallCalculateLogScore ==
    /\ pc = "idle"
    /\ \E pair \in LogScoreVectors, predProb \in Percents, truthProb \in Percents :
          /\ call' = [fn |-> "calculateLogScore",
                       prediction1 |-> pair[1], predProb1 |-> predProb,
                       prediction2 |-> NoVector, predProb2 |-> Zero,
                       truth |-> pair[2], truthProb |-> truthProb]
          /\ ret' = calculateLogScore(pair[1], predProb, pair[2], truthProb)
    /\ pc' = "returned"
    /\ UNCHANGED <<widgetVars, distributionWidgetVars>>

CallComparePredictions ==
    /\ pc = "idle"
    /\ \E prediction1 \in CompareVectors, prediction2 \in CompareVectors,
          truth \in CompareVectors, predProb1 \in ComparePercents,
          predProb2 \in ComparePercents, truthProb \in ComparePercents :
          /\ call' = [fn |-> "comparePredictions",
                       prediction1 |-> prediction1, predProb1 |-> predProb1,
                       prediction2 |-> prediction2, predProb2 |-> predProb2,
                       truth |-> truth, truthProb |-> truthProb]
          /\ ret' = comparePredictions(prediction1, predProb1, prediction2,
                                        predProb2, truth, truthProb)
    /\ pc' = "returned"
    /\ UNCHANGED <<widgetVars, distributionWidgetVars>>

CallCalculateKLDivergence ==
    /\ pc = "idle"
    /\ \E prediction \in Vectors, truth \in Vectors :
          /\ call' = [fn |-> "calculateKLDivergence",
                       prediction1 |-> prediction, predProb1 |-> Zero,
                       prediction2 |-> NoVector, predProb2 |-> Zero,
                       truth |-> truth, truthProb |-> Zero]
          /\ ret' = calculateKLDivergence(prediction, truth)
    /\ pc' = "returned"
    /\ UNCHANGED <<widgetVars, distributionWidgetVars>>

Next ==
    \/ CallCalculateLogScore
    \/ CallComparePredictions
    \/ CallCalculateKLDivergence

Spec == Init /\ [][Next]_vars

----------------------------------------------------------------------------
(* Calls of the two functions of the URL encoding *)

\* probabilities at and next to the points where the encoding rounds
SampleProbabilities ==
    {0, FLOOR_PROBABILITY_EPSILON, Thousandth \div 2 - 1, Thousandth \div 2,
     ProbabilityOne \div 10, ProbabilityOne \div 2,
     ProbabilityOne - Thousandth \div 2 - 1, ProbabilityOne - Thousandth \div 2,
     ProbabilityOne, ProbabilityOne + Thousandth \div 2}

ValueArrays == UNION {[1..n -> SampleProbabilities] : n \in 0..MaxChunks}

\* chunks for 0, 1000, 1001, 1000 in lower case, 46655 and 100, and two
\* chunks with a character that is no digit of base 36
SampleChunks ==
    {<<"0", "0", "0">>, <<"0", "R", "S">>, <<"0", "R", "T">>, <<"0", "r", "s">>,
     <<"Z", "Z", "Z">>, <<"0", "2", "S">>, <<"0", "@", "0">>, <<"0", "-", "1">>}

\* strings of up to MaxChunks chunks, followed by up to two more characters
SampleStrings ==
    {Join(chunks) \o rest :
        chunks \in UNION {[1..n -> SampleChunks] : n \in 0..MaxChunks},
        rest \in {<<>>, <<"0">>, <<"0", "R">>}}

DecodeInputs == {JsNull} \cup {JsString(str) : str \in SampleStrings}

CallEncodeDistributionValues ==
    /\ pc = "idle"
    /\ \E values \in ValueArrays :
          /\ call' = [fn |-> "encodeDistributionValues", values |-> values]
          /\ ret' = Return(JsString(encodeDistributionValues(values)))
    /\ pc' = "returned"
    /\ UNCHANGED <<widgetVars, distributionWidgetVars>>

CallDecodeDistributionValues ==
    /\ pc = "idle"
    /\ \E encoded \in DecodeInputs :
          /\ call' = [fn |-> "decodeDistributionValues", encoded |-> encoded]
          /\ ret' = Return(decodeDistributionValues(encoded))
    /\ pc' = "returned"
    /\ UNCHANGED <<widgetVars, distributionWidgetVars>>

UrlCodecNext ==
    \/ CallEncodeDistributionValues
    \/ CallDecodeDistributionValues

UrlCodecSpec == Init /\ [][UrlCodecNext]_vars

----------------------------------------------------------------------------
(* A widget made by createInteractiveWidget and the events it handles *)

\* the values of the two distributions the fragments of the model carry
BlueValues == [n \in 1..numPeriods |-> n * (ProbabilityOne \div 10)]

RedValues == [n \in 1..numPeriods |-> IF n = 1 THEN 0 ELSE ProbabilityOne]

\* distribution parts that parseUrlState accepts when their colour is new
ValidParts ==
    {Part("blue", encodeDistributionValues(BlueValues)),
     Part("red", encodeDistributionValues(RedValues))}

\* distribution parts without a colour, without values, with a colour that is
\* not expected, with a chunk above 1000 and with a value too few
InvalidParts ==
    {Part("", encodeDistributionValues(BlueValues)),
     Part("green", <<>>),
     Part("magenta", encodeDistributionValues(BlueValues)),
     Part("green", [encodeDistributionValues(BlueValues) EXCEPT ![1] = "Z"]),
     Part("green", SubSeq(encodeDistributionValues(BlueValues), 1,
                          chunkSize * (numPeriods - 1)))}

\* The fragments the browser is opened with or sent to have at most MaxParts
\* parts; the parts before the last one are taken from ValidParts, the last
\* one is any part.
Fragments ==
    {<<>>} \cup
    UNION {{Append(parts, last) :
               parts \in [1..n -> ValidParts],
               last \in ValidParts \cup InvalidParts} : n \in 0..(MaxParts - 1)}

\* pointer positions left of the plot and inside it
PointerX == {0 - 1, numPeriods \div 2}

\* pointer positions below the plot, inside it and above it
PointerY ==
    {0 - ProbabilityOne \div 2, ProbabilityOne \div 2,
     ProbabilityOne + ProbabilityOne \div 2}

\* the probabilities of the heights the guideline is dragged to
DragProbabilities == {ProbabilityOne \div 4, ProbabilityOne}

\* parseUrlState of every fragment of the model
UrlStateOf == [fragment \in Fragments |-> parseUrlState(fragment)]

\* The options of the widget enable the URL state or not, and the page is
\* opened with a fragment
WidgetInit ==
    /\ NoCall
    /\ NoWidget
    /\ NoDistributionWidget
    /\ enableUrlState \in BOOLEAN
    /\ hash \in IF enableUrlState THEN Fragments ELSE {<<>>}

\* the assignments parseUrlState makes when it returns true
ApplyUrlState(newDistributions) ==
    /\ distributions' = newDistributions
    /\ originalValues' = WithOriginalValues(originalValues, newDistributions)
    /\ activeDistributionIndex' = 0
    /\ guidelineManuallySet' = FALSE
    /\ visibilityState' = WithVisibility(visibilityState, newDistributions, 0)

\* the delay of the timer of debouncedUrlUpdate, in milliseconds
UrlUpdateDelay == 500

\* Time passes in steps of half the delay
TimeStep == UrlUpdateDelay \div 2

\* clearTimeout(handle): the active timers it leaves
clearTimeout(active, handle) == {timer \in active : timer.id # handle}

\* the handle setTimeout returns: an integer greater than zero that no
\* active timer has
NewHandle(active) ==
    CHOOSE id \in 1..(Cardinality(active) + 1) :
        /\ \A timer \in active : timer.id # id
        /\ \A less \in 1..(id - 1) : \E timer \in active : timer.id = less

\* setTimeout(callback, delay): the active timers it leaves
setTimeout(active, delay) ==
    active \cup {[id |-> NewHandle(active), delay |-> delay]}

\* debouncedUrlUpdate that does not clear the timer of the call before
Debounced_NoClear(active, handle) ==
    [timers |-> setTimeout(active, UrlUpdateDelay),
     urlUpdateTimeout |-> NewHandle(active)]

\* debouncedUrlUpdate on the active timers and the handle urlUpdateTimeout
\* holds, 0 standing for null: the timers and the handle it leaves
Debounced(active, handle) ==
    [timers |->
        setTimeout(IF handle # 0 THEN clearTimeout(active, handle) ELSE active,
                   UrlUpdateDelay),
     urlUpdateTimeout |->
        NewHandle(IF handle # 0 THEN clearTimeout(active, handle) ELSE active)]

debouncedUrlUpdate ==
    /\ timers' = Debounced(timers, urlUpdateTimeout).timers
    /\ urlUpdateTimeout' = Debounced(timers, urlUpdateTimeout).urlUpdateTimeout

\* createInteractiveWidget: initializeUrlState, then initializeVisibilityState
CreateInteractiveWidget ==
    /\ widget = "none"
    /\ widget' = "created"
    /\ IF enableUrlState /\ UrlStateOf[hash].restored
       THEN ApplyUrlState(UrlStateOf[hash].distributions)
       ELSE /\ distributions' =
                  IF enableUrlState THEN distributions \o DefaultDistributions
                  ELSE distributions
            /\ originalValues' =
                  IF enableUrlState
                  THEN WithOriginalValues(originalValues, DefaultDistributions)
                  ELSE originalValues
            /\ visibilityState' =
                  IF enableUrlState
                  THEN WithVisibility(visibilityState, DefaultDistributions,
                                      activeDistributionIndex)
                  ELSE visibilityState
            /\ UNCHANGED <<activeDistributionIndex, guidelineManuallySet>>
    /\ UNCHANGED <<callVars, distributionWidgetVars, enableUrlState, hash, userModifiedValues,
                   isDrawing, isDraggingGuideline, lastX, lastY, timerVars,
                   hashChangeTasks, events>>

\* an event is handled or a method is called on a widget that exists
EventHandled ==
    /\ widget = "created"
    /\ events < MaxEvents
    /\ events' = events + 1
    /\ UNCHANGED <<callVars, distributionWidgetVars, widget, enableUrlState>>

\* a user event that sends the browser to no fragment
UserEvent ==
    /\ EventHandled
    /\ UNCHANGED hashChangeTasks

\* the listeners of popstate and hashchange, which initializeUrlState adds
\* when the URL state is enabled, run when the browser is sent to another
\* fragment
HashChange ==
    /\ UserEvent
    /\ enableUrlState
    /\ \E fragment \in Fragments :
          /\ hash' = fragment
          /\ LET state == UrlStateOf[fragment]
             IN
             IF state.restored
             THEN ApplyUrlState(state.distributions)
             ELSE UNCHANGED <<distributions, originalValues, visibilityState,
                              activeDistributionIndex, guidelineManuallySet>>
    /\ UNCHANGED <<userModifiedValues, isDrawing, isDraggingGuideline, lastX,
                   lastY, timerVars>>

\* Time passes by one step while no active timer is due
TimePasses ==
    /\ widget = "created"
    /\ timers # {}
    /\ \A timer \in timers : timer.delay > 0
    /\ timers' =
          {[timer EXCEPT !.delay = MathMax(0, timer.delay - TimeStep)] :
              timer \in timers}
    /\ UNCHANGED <<callVars, distributionWidgetVars, widget, enableUrlState, hash, distributions,
                   activeDistributionIndex, visibilityState, originalValues,
                   userModifiedValues, guidelineManuallySet, isDrawing,
                   isDraggingGuideline, lastX, lastY, urlUpdateTimeout,
                   hashChangeTasks, events>>

\* a timer of debouncedUrlUpdate is due and fires: serializeStateToUrl
UrlUpdateTimeout ==
    /\ widget = "created"
    /\ \E timer \in timers :
          /\ timer.delay = 0
          /\ timers' = timers \ {timer}
          /\ hash' = IF enableUrlState THEN SerializedFragment(distributions)
                     ELSE hash
    /\ UNCHANGED <<callVars, distributionWidgetVars, widget, enableUrlState, distributions,
                   activeDistributionIndex, visibilityState, originalValues,
                   userModifiedValues, guidelineManuallySet, isDrawing,
                   isDraggingGuideline, lastX, lastY, urlUpdateTimeout,
                   hashChangeTasks, events>>

\* handlePointerDown, on the label of the guideline or anywhere else
HandlePointerDown ==
    /\ UserEvent
    /\ \E nearGuidelineLabel \in BOOLEAN, x \in PointerX, y \in PointerY :
          IF nearGuidelineLabel
          THEN /\ isDraggingGuideline' = TRUE
               /\ guidelineManuallySet' = TRUE
               /\ UNCHANGED <<distributions, userModifiedValues, isDrawing,
                              lastX, lastY, timerVars>>
          ELSE IF activeDistributionIndex = 0 - 1
          THEN UNCHANGED <<distributions, userModifiedValues, isDrawing,
                           isDraggingGuideline, guidelineManuallySet, lastX,
                           lastY, timerVars>>
          ELSE IF activeDistributionIndex >= Len(distributions)
          THEN \* distributions[activeDistributionIndex] is undefined: the
               \* handler ends with a TypeError after its first assignments
               /\ isDrawing' = TRUE
               /\ lastX' = x
               /\ lastY' = y
               /\ guidelineManuallySet' = FALSE
               /\ UNCHANGED <<distributions, userModifiedValues,
                              isDraggingGuideline, timerVars>>
          ELSE /\ isDrawing' = TRUE
               /\ lastX' = x
               /\ lastY' = y
               /\ guidelineManuallySet' = FALSE
               /\ distributions' =
                     Drawn(distributions, activeDistributionIndex, x, x, y)
               /\ userModifiedValues' =
                     userModifiedValues \cup {activeDistributionIndex}
               /\ debouncedUrlUpdate
               /\ UNCHANGED isDraggingGuideline
    /\ UNCHANGED <<hash, activeDistributionIndex, visibilityState,
                   originalValues>>

\* handlePointerMove: the guideline is dragged to the height of a
\* probability, or the stroke goes on along a period or along a height
HandlePointerMove ==
    /\ UserEvent
    /\ IF isDraggingGuideline
       THEN /\ \E currentProbability \in DragProbabilities :
                 IF /\ activeDistributionIndex >= 0
                    /\ activeDistributionIndex < Len(distributions)
                 THEN /\ MaxOf(distributions[activeDistributionIndex + 1].values) > 0
                      /\ ScaleAllWithinLimit(distributions, currentProbability,
                            MaxOf(distributions[activeDistributionIndex + 1].values))
                      /\ distributions' =
                            ScaleAll(distributions, currentProbability,
                                MaxOf(distributions[activeDistributionIndex + 1].values))
                 ELSE UNCHANGED distributions
            /\ debouncedUrlUpdate
            /\ UNCHANGED <<userModifiedValues, lastX, lastY>>
       ELSE IF \/ ~isDrawing
               \/ activeDistributionIndex = 0 - 1
               \/ activeDistributionIndex >= Len(distributions)
       THEN \* with an active index that names no distribution the first
            \* assignment of the stroke throws
            UNCHANGED <<distributions, userModifiedValues, lastX, lastY,
                        timerVars>>
       ELSE \E x \in PointerX, y \in PointerY :
               /\ x = lastX \/ y = lastY
               /\ IF x = lastX /\ y = lastY
                  THEN UNCHANGED <<distributions, userModifiedValues, lastX,
                                   lastY, timerVars>>
                  ELSE /\ distributions' =
                            Drawn(distributions, activeDistributionIndex,
                                  lastX, x, y)
                       /\ userModifiedValues' =
                            userModifiedValues \cup {activeDistributionIndex}
                       /\ lastX' = x
                       /\ lastY' = y
                       /\ debouncedUrlUpdate
    /\ UNCHANGED <<hash, activeDistributionIndex, visibilityState,
                   originalValues, guidelineManuallySet, isDrawing,
                   isDraggingGuideline>>

\* handlePointerUp
HandlePointerUp ==
    /\ UserEvent
    /\ isDraggingGuideline' = FALSE
    /\ isDrawing' = FALSE
    /\ IF isDrawing
       THEN /\ RenormalizationWithinLimit(distributions, activeDistributionIndex)
            /\ distributions' =
                  performRenormalization(distributions, activeDistributionIndex)
            /\ originalValues' =
                  IF /\ activeDistributionIndex >= 0
                     /\ activeDistributionIndex < Len(distributions)
                  THEN [k \in (DOMAIN originalValues) \cup {activeDistributionIndex} |->
                          IF k = activeDistributionIndex
                          THEN distributions'[activeDistributionIndex + 1].values
                          ELSE originalValues[k]]
                  ELSE originalValues
            /\ debouncedUrlUpdate
       ELSE UNCHANGED <<distributions, originalValues, timerVars>>
    /\ UNCHANGED <<hash, activeDistributionIndex, visibilityState,
                   userModifiedValues, guidelineManuallySet, lastX, lastY>>

\* the indices setActiveDistribution is called with
SwitchIndices == {0 - 1, 1, Len(validColors)}

\* the distributions setActiveDistribution(index) has before it renormalizes
Switched(index) ==
    autoScaleDistribution(
        Restored(distributions, originalValues, userModifiedValues), index)

\* widget.setActiveDistribution(index)
SetActiveDistribution ==
    /\ UserEvent
    /\ \E index \in SwitchIndices :
          IF index >= 0 /\ index < Len(distributions)
          THEN /\ RenormalizationWithinLimit(Switched(index), index)
               /\ activeDistributionIndex' = index
               /\ guidelineManuallySet' = FALSE
               /\ distributions' = performRenormalization(Switched(index), index)
               /\ visibilityState' =
                     [k \in (DOMAIN visibilityState) \cup {index} |->
                         IF k = index THEN TRUE ELSE visibilityState[k]]
               /\ debouncedUrlUpdate
          ELSE UNCHANGED <<activeDistributionIndex, guidelineManuallySet,
                           distributions, visibilityState, timerVars>>
    /\ UNCHANGED <<hash, originalValues, userModifiedValues, isDrawing,
                   isDraggingGuideline, lastX, lastY>>

\* widget.renormalizeBackgroundDistributions()
RenormalizeBackgroundDistributions ==
    /\ UserEvent
    /\ RenormalizationWithinLimit(distributions, activeDistributionIndex)
    /\ distributions' =
          performRenormalization(distributions, activeDistributionIndex)
    /\ IF Renormalizes(distributions, activeDistributionIndex)
       THEN debouncedUrlUpdate
       ELSE UNCHANGED timerVars
    /\ UNCHANGED <<hash, activeDistributionIndex, visibilityState,
                   originalValues, userModifiedValues, guidelineManuallySet,
                   isDrawing, isDraggingGuideline, lastX, lastY>>

WidgetNext ==
    \/ CreateInteractiveWidget
    \/ HashChange
    \/ TimePasses
    \/ UrlUpdateTimeout
    \/ HandlePointerDown
    \/ HandlePointerMove
    \/ HandlePointerUp
    \/ SetActiveDistribution
    \/ RenormalizeBackgroundDistributions

WidgetSpec == WidgetInit /\ [][WidgetNext]_vars

----------------------------------------------------------------------------
(* The calls the claims are about *)

LogScoreCalled == pc = "returned" /\ call.fn = "calculateLogScore"

LogScoreReturned == LogScoreCalled /\ ret.tag = "return"

CompareCalled == pc = "returned" /\ call.fn = "comparePredictions"

CompareReturned == CompareCalled /\ ret.tag = "return"

DivergenceCalled == pc = "returned" /\ call.fn = "calculateKLDivergence"

ShapeErrorThrown ==
    ret.tag = "throw" /\ ret.msg = "Distributions must have the same shape"

BothFinite ==
    /\ ret.value.prediction1.logScore.k = "num"
    /\ ret.value.prediction2.logScore.k = "num"

AbsInt(n) == IF n < 0 THEN 0 - n ELSE n

\* |score1 - score2| of a comparison with two finite scores, in units of 1e-5
ScoreDistance ==
    AbsInt(ret.value.prediction1.logScore.v - ret.value.prediction2.logScore.v)

PredMassOfCall == Div100(call.predProb1)

TruthMassOfCall == Div100(call.truthProb)

\* some bin has positive normalised truth and a normalised prediction <= 0
RuledOutBin(Q, P) ==
    \E i \in 1..Len(Q) : ~RatioLeZero(Q[i]) /\ RatioLeZero(P[i])

EncodeCalled == pc = "returned" /\ call.fn = "encodeDistributionValues"

DecodeCalled == pc = "returned" /\ call.fn = "decodeDistributionValues"

IsBase36Char(c) ==
    \E n \in 1..Radix : c = Digits36[n] \/ c = UpperCase36[n]

\* chunk number k (from 1) of a string
ChunkOf(str, k) == SubSeq(str, chunkSize * (k - 1) + 1, chunkSize * k)

\* the inputs for which decodeDistributionValues is to return null
NotDecodable(encoded) ==
    \/ encoded = JsNull
    \/ Len(encoded.s) = 0
    \/ Len(encoded.s) % chunkSize # 0
    \/ \E i \in 1..Len(encoded.s) : ~IsBase36Char(encoded.s[i])
    \/ /\ \A i \in 1..Len(encoded.s) : IsBase36Char(encoded.s[i])
       /\ \E k \in 1..(Len(encoded.s) \div chunkSize) :
             ParseInt36(ToUpperCase(ChunkOf(encoded.s, k))) > EncodingScale

\* a distribution part that is to make parseUrlState reject its fragment
PartInvalid(part) ==
    \/ part.color = ""
    \/ part.encodedValues = <<>>
    \/ \A n \in 1..Len(validColors) : validColors[n] # part.color
    \/ NotDecodable(JsString(part.encodedValues))
    \/ Len(part.encodedValues) # chunkSize * numPeriods

\* the fragment has a part that is invalid or repeats a colour
HasInvalidPart(fragment) ==
    \/ \E n \in 1..Len(fragment) : PartInvalid(fragment[n])
    \/ \E m, n \in 1..Len(fragment) :
          m < n /\ fragment[m].color = fragment[n].color

\* the fragment names at least one distribution and every part is valid
Accepted(fragment) == fragment # <<>> /\ ~HasInvalidPart(fragment)

\* the fragments of the model that are to be rejected, and those that are
\* to be accepted
InvalidFragments == {fragment \in Fragments : HasInvalidPart(fragment)}

AcceptedFragments == {fragment \in Fragments : Accepted(fragment)}

\* the distributions, the active index and the visibility of the default
\* initialization state
DefaultInitializationState ==
    /\ distributions = DefaultDistributions
    /\ activeDistributionIndex = 0
    /\ DOMAIN visibilityState = IndexOf(distributions)
    /\ \A k \in IndexOf(distributions) : visibilityState[k] = (k = 0)

\* the values of the distribution of a colour
ValuesOf(dists, color) ==
    (CHOOSE n \in 1..Len(dists) : dists[n].color = color).values

\* the probabilities that the chunks of a valid part stand for
ValuesNamed(encodedValues) ==
    [k \in 1..numPeriods |->
        MathMax(FLOOR_PROBABILITY_EPSILON,
                ParseInt36(ToUpperCase(ChunkOf(encodedValues, k))) * Thousandth)]

\* for every accepted fragment of the model, the values each expected colour
\* is to have once the fragment is loaded
ExpectedValues ==
    [fragment \in AcceptedFragments |->
        [n \in 1..Len(validColors) |->
            IF \E i \in 1..Len(fragment) : fragment[i].color = validColors[n]
            THEN ValuesNamed(fragment[CHOOSE i \in 1..Len(fragment) :
                                fragment[i].color = validColors[n]].encodedValues)
            ELSE initialValues]]

\* the widget holds the complete set of distributions that loading the
\* fragment of the hash is to give
CompleteSet ==
    /\ Len(distributions) = Len(validColors)
    /\ \A n \in 1..Len(validColors) :
          \E m \in 1..Len(distributions) :
             /\ distributions[m].color = validColors[n]
             /\ \A k \in 1..Len(distributions) :
                   distributions[k].color = validColors[n] => k = m
             /\ distributions[m].values = ExpectedValues[hash][n]
    /\ activeDistributionIndex = 0
    /\ \A k \in IndexOf(distributions) :
          visibilityState[k] = (k = activeDistributionIndex)

\* the call has an empty vector, an entry that is not finite or an entry
\* below -tolerance
InvalidElements ==
    \/ Len(call.prediction1) = 0
    \/ Len(call.truth) = 0
    \/ SomeNotFinite(call.prediction1)
    \/ SomeNotFinite(call.truth)
    \/ SomeNegative(call.prediction1)
    \/ SomeNegative(call.truth)

ElementMessages ==
    {"Distributions must have the same shape",
     "Distributions must have at least one entry",
     "Distributions must be finite",
     "Distributions cannot contain negative values"}

\* m lies outside the closed interval [0 - tolerance, 1 + tolerance]
MassOutside(m) == Lt(m, NegNum(tolerance)) \/ Gt(m, onePlusTol)

PredictionMassErrorThrown ==
    /\ ret.tag = "throw"
    /\ ret.msg \in {"Prediction mass cannot exceed 1, but was ",
                    "Prediction mass cannot be negative, but was "}
    /\ ret.was = PredMassOfCall

TruthMassErrorThrown ==
    /\ ret.tag = "throw"
    /\ ret.msg \in {"Ground truth mass cannot exceed 1, but was ",
                    "Ground truth mass cannot be negative, but was "}
    /\ ret.was = TruthMassOfCall

\* the call is calculateLogScore(P, m, P, m) with a valid shape P and 0 < m < 1
IdentityCall ==
    /\ LogScoreCalled
    /\ call.prediction1 = call.truth
    /\ call.predProb1 = call.truthProb
    /\ ElementError(call.prediction1, call.truth) = ""
    /\ Gt(PredMassOfCall, Zero)
    /\ Lt(PredMassOfCall, One)

RECURSIVE EntropySum(_, _)
\* the sum of -p * log(p) over the bins from bin i on with p > 0
EntropySum(N, i) ==
    IF i > Len(N) THEN Finite(0)
    ELSE FAdd(IF RatioLeZero(N[i]) THEN Finite(0)
              ELSE MinusRatioTimes(N[i], MathLogRatio(N[i])),
              EntropySum(N, i + 1))

\* the entropy H(P) of the normalised shape P
Entropy(P) == EntropySum(NormalizeTruth(P), 1)

----------------------------------------------------------------------------
(* Claims *)

\* C1: when both log scores are finite, winning is "tie" if
\* |score1 - score2| <= 1e-10 and otherwise names the prediction with the
\* strictly lower score; two identical predictions always tie.
C1_WinnerOfFiniteScores ==
    CompareReturned =>
        /\ BothFinite =>
              /\ ScoreDistance <= compareTolerance => ret.value.winning = "tie"
              /\ (/\ ScoreDistance > compareTolerance
                  /\ ret.value.prediction1.logScore.v
                        < ret.value.prediction2.logScore.v)
                    => ret.value.winning = "prediction1"
              /\ (/\ ScoreDistance > compareTolerance
                  /\ ret.value.prediction2.logScore.v
                        < ret.value.prediction1.logScore.v)
                    => ret.value.winning = "prediction2"
        /\ (call.prediction1 = call.prediction2 /\ call.predProb1 = call.predProb2)
              => ret.value.winning = "tie"

C1_Witness ==
    /\ CompareReturned
    /\ BothFinite
    /\ ret.value.prediction2.logScore.v < ret.value.prediction1.logScore.v
    /\ ret.value.winning = "prediction2"

\* C2: when exactly one of the two scores is finite, winning names the
\* prediction with the finite score; +Infinity never wins against a finite score.
C2_FiniteBeatsInfinite ==
    CompareReturned =>
        /\ (/\ Number_isFinite(ret.value.prediction1.logScore)
            /\ ~Number_isFinite(ret.value.prediction2.logScore))
              => ret.value.winning = "prediction1"
        /\ (/\ ~Number_isFinite(ret.value.prediction1.logScore)
            /\ Number_isFinite(ret.value.prediction2.logScore))
              => ret.value.winning = "prediction2"

C2_Witness ==
    /\ CompareReturned
    /\ ret.value.prediction1.logScore = Infinity
    /\ Number_isFinite(ret.value.prediction2.logScore)
    /\ ret.value.winning = "prediction2"

\* C3: gap and factor are both null whenever a score is not finite, and both
\* are non-null numbers whenever both scores are finite.
C3_GapAndFactorNullTogether ==
    CompareReturned =>
        IF BothFinite
        THEN ret.value.gap.k = "num" /\ ret.value.factor.k = "exp"
        ELSE ret.value.gap = Null /\ ret.value.factor = Null

C3_Witness ==
    /\ CompareReturned
    /\ Number_isFinite(ret.value.prediction1.logScore)
    /\ ret.value.prediction2.logScore = Infinity
    /\ ret.value.gap = Null
    /\ ret.value.factor = Null

\* C4: when both scores are finite, gap = score2 - score1 and its sign agrees
\* with the winner: prediction1 => gap > 0, prediction2 => gap < 0,
\* tie => |gap| <= 1e-10.
C4_GapSignAgreesWithWinner ==
    (CompareReturned /\ BothFinite) =>
        /\ ret.value.gap = Finite(ret.value.prediction2.logScore.v
                                  - ret.value.prediction1.logScore.v)
        /\ ret.value.winning = "prediction1" => ret.value.gap.v > 0
        /\ ret.value.winning = "prediction2" => ret.value.gap.v < 0
        /\ ret.value.winning = "tie" => AbsInt(ret.value.gap.v) <= compareTolerance

C4_Witness ==
    /\ CompareReturned
    /\ BothFinite
    /\ ret.value.winning = "prediction1"
    /\ ret.value.gap.k = "num"
    /\ ret.value.gap.v > 0

\* C5: when both scores are finite, factor is a ratio >= 1 in favour of the
\* winner; in particular factor > 1 when prediction 1 is the better one (gap > 0).
C5_FactorFavoursWinner ==
    (CompareReturned /\ BothFinite) =>
        /\ ret.value.winning = "prediction1"
              => ret.value.factor.k = "exp" /\ ret.value.factor.v > 0
        /\ ret.value.winning = "prediction2"
              => ret.value.factor.k = "exp" /\ ret.value.factor.v > 0

\* C6: for every input that passes validation, a prediction mass <= tolerance
\* with a truth mass > tolerance gives +Infinity, whatever the two vectors are.
C6_ZeroPredictionMassIsInfinite ==
    (/\ LogScoreReturned
     /\ Le(PredMassOfCall, tolerance)
     /\ Gt(TruthMassOfCall, tolerance))
        => ret.value = Infinity

C6_Witness ==
    /\ LogScoreReturned
    /\ PredMassOfCall = tolerance
    /\ Gt(TruthMassOfCall, tolerance)
    /\ call.prediction1 = call.truth
    /\ Sum(call.truth) > 0
    /\ ret.value = Infinity

C8_PerBinRule ==
    /\ LogScoreReturned =>
          LET Q == NormalizeTruth(call.truth)
              P == NormalizePrediction(call.prediction1, PredMassOfCall)
          IN  /\ RuledOutBin(Q, P) => ret.value = Infinity
              /\ (PredMassOfCall = One /\ TruthMassOfCall = One)
                    => (Number_isFinite(ret.value) <=> ~RuledOutBin(Q, P))
              /\ (/\ ~ZeroMassEdge(PredMassOfCall, TruthMassOfCall)
                  /\ ~FullMassEdge(PredMassOfCall, TruthMassOfCall)
                  /\ ~RuledOutBin(Q, P))
                    => ret.value # Infinity
    /\ (DivergenceCalled /\ ret.tag = "return") =>
          (ret.value = Infinity
             <=> RuledOutBin(NormalizeKL(call.truth), NormalizeKL(call.prediction1)))

C8_Witness ==
    /\ LogScoreReturned
    /\ PredMassOfCall = One
    /\ TruthMassOfCall = One
    /\ \E i \in 1..Len(call.truth) :
          call.truth[i] = 0 /\ call.prediction1[i] = 0
    /\ Sum(call.truth) > 0
    /\ Sum(call.prediction1) > 0
    /\ Number_isFinite(ret.value)

\* C9: when the truth mass is <= tolerance and no validation error or mass
\* edge case applies, the score is finite and equals
\* -(1 - truthMass) * log(1 - predMass) for every prediction shape.
C9_ZeroTruthMassScore ==
    (/\ LogScoreReturned
     /\ Le(TruthMassOfCall, tolerance)
     /\ ~ZeroMassEdge(PredMassOfCall, TruthMassOfCall)
     /\ ~FullMassEdge(PredMassOfCall, TruthMassOfCall))
        => /\ Number_isFinite(ret.value)
           /\ ret.value = FNeg(MulMass(Minus(One, TruthMassOfCall),
                                       MathLogNum(Minus(One, PredMassOfCall))))

\* C10: a scorer called with a prediction and a truth of different lengths
\* always fails with the shape error and never yields a score, whatever the
\* mass arguments are.
C10_DifferentLengthsThrow ==
    /\ (LogScoreCalled /\ Len(call.prediction1) # Len(call.truth))
          => ShapeErrorThrown
    /\ (DivergenceCalled /\ Len(call.prediction1) # Len(call.truth))
          => ShapeErrorThrown
    /\ (/\ CompareCalled
        /\ \/ Len(call.prediction1) # Len(call.truth)
           \/ Len(call.prediction2) # Len(call.truth))
          => ret.tag = "throw"

C10_Witness ==
    /\ LogScoreCalled
    /\ Len(call.prediction1) # Len(call.truth)
    /\ Gt(PredMassOfCall, onePlusTol)
    /\ ShapeErrorThrown

\* C11: validation precedes the edge-case policy: a call with an empty
\* vector, an entry that is not finite or an entry below -tolerance raises an
\* error of the element checks and never returns +Infinity or a score, also
\* when the masses satisfy an edge case.
C11_ValidationPrecedesEdgeCases ==
    (LogScoreCalled /\ InvalidElements) =>
        ret.tag = "throw" /\ ret.msg \in ElementMessages

C11_Witness ==
    /\ LogScoreCalled
    /\ SomeNotFinite(call.prediction1)
    /\ Len(call.prediction1) = Len(call.truth)
    /\ ZeroMassEdge(PredMassOfCall, TruthMassOfCall)
    /\ PredMassOfCall = Zero
    /\ ret.tag = "throw"
    /\ ret.msg = "Distributions must be finite"

\* C12: with valid vectors, an error naming the offending side and its value
\* is raised whenever a mass lies outside [0 - tolerance, 1 + tolerance], and
\* no error is raised when both masses lie inside it, its two ends included.
C12_MassErrorOutsideClosedInterval ==
    (LogScoreCalled /\ ElementError(call.prediction1, call.truth) = "") =>
        IF MassOutside(PredMassOfCall) \/ MassOutside(TruthMassOfCall)
        THEN \/ MassOutside(PredMassOfCall) /\ PredictionMassErrorThrown
             \/ MassOutside(TruthMassOfCall) /\ TruthMassErrorThrown
        ELSE ret.tag = "return"

C14_NonNegative ==
    LogScoreReturned =>
        \/ ret.value = Infinity
        \/ Number_isFinite(ret.value) /\ ~FLt(ret.value, Finite(0))

\* C15: when both scores are +Infinity the comparison is a tie and gap and
\* factor are null.
C15_BothInfiniteTie ==
    (/\ CompareReturned
     /\ ret.value.prediction1.logScore = Infinity
     /\ ret.value.prediction2.logScore = Infinity)
        => /\ ret.value.winning = "tie"
           /\ ret.value.gap = Null
           /\ ret.value.factor = Null

C15_Witness ==
    /\ CompareReturned
    /\ ret.value.prediction1.logScore = Infinity
    /\ ret.value.prediction2.logScore = Infinity
    /\ call.predProb1 # call.predProb2
    /\ ret.value.winning = "tie"

\* C16: for every non-empty array of probabilities in [0, 1] the encoded
\* string has exactly 3 characters per value, and decoding it gives an array
\* of the same length whose entries differ from the originals by less than
\* 0.001.
C16_EncodingRoundTrips ==
    (/\ EncodeCalled
     /\ Len(call.values) > 0
     /\ \A i \in 1..Len(call.values) : call.values[i] \in 0..ProbabilityOne)
        => /\ ret.tag = "return"
           /\ Len(ret.value.s) = chunkSize * Len(call.values)
           /\ decodeDistributionValues(ret.value).t = "array"
           /\ Len(decodeDistributionValues(ret.value).s) = Len(call.values)
           /\ \A i \in 1..Len(call.values) :
                 AbsInt(decodeDistributionValues(ret.value).s[i] - call.values[i])
                    < Thousandth

C16_Witness ==
    /\ EncodeCalled
    /\ call.values = <<Thousandth \div 2, ProbabilityOne>>
    /\ ret.value = JsString(<<"0", "0", "1", "0", "R", "S">>)
    /\ decodeDistributionValues(ret.value) = JsArray(<<Thousandth, ProbabilityOne>>)

\* C19: decodeDistributionValues never throws; it returns null for null, for
\* the empty string, for a length that is no multiple of 3, for a chunk with
\* a character that is no base-36 digit and for a chunk whose value exceeds
\* 1000; for every other string it returns one probability in [0, 1] per
\* chunk, in the order of the chunks.
C19_DecodeNullOrComplete ==
    DecodeCalled =>
        /\ ret.tag = "return"
        /\ IF NotDecodable(call.encoded) THEN ret.value = JsNull
           ELSE /\ ret.value.t = "array"
                /\ Len(ret.value.s) = Len(call.encoded.s) \div chunkSize
                /\ \A k \in 1..Len(ret.value.s) :
                      /\ ret.value.s[k] \in 0..ProbabilityOne
                      /\ ret.value.s[k] =
                            MathMax(FLOOR_PROBABILITY_EPSILON,
                                    ParseInt36(ToUpperCase(ChunkOf(call.encoded.s, k)))
                                        * Thousandth)

C19_Witness ==
    /\ DecodeCalled
    /\ call.encoded = JsString(<<"0", "R", "S", "0", "R", "T">>)
    /\ ret.value = JsNull

\* C17: in every state of a widget with the URL state enabled the fragment serializeStateToUrl writes
\* is accepted by parseUrlState of a widget with the same year range, and the
\* distributions it gives have the colours of the sender's, in their order,
\* with values that differ by less than 0.001.
C17_SharedUrlReproduces ==
    (widget = "created" /\ enableUrlState) =>
        LET state == parseUrlState(SerializedFragment(distributions))
        IN  /\ state.restored
            /\ Len(state.distributions) = Len(distributions)
            /\ \A n \in 1..Len(distributions) :
                  /\ state.distributions[n].color = distributions[n].color
                  /\ \A i \in 1..numPeriods :
                        AbsInt(state.distributions[n].values[i]
                                   - distributions[n].values[i]) < Thousandth

\* C18: a fragment with an invalid part or a repeated colour is rejected as a
\* whole: parseUrlState returns false for it; when the browser is sent to it
\* the distributions, the active index and the visibility stay as they are;
\* a widget created with it, the URL state enabled, starts in the default
\* initialization state.
C18_FragmentAllOrNothing ==
    /\ \A fragment \in InvalidFragments : ~parseUrlState(fragment).restored
    /\ [][/\ (hash' \in InvalidFragments /\ HashChange)
               => UNCHANGED <<distributions, activeDistributionIndex,
                              visibilityState>>
          /\ (enableUrlState /\ hash \in InvalidFragments
               /\ CreateInteractiveWidget)
               => DefaultInitializationState']_vars

\* the browser was sent from a fragment that begins with red to one whose
\* valid blue part is followed by an invalid part, and the distributions
\* are still those of the red fragment
C18_Witness ==
    /\ widget = "created"
    /\ Len(hash) = 2
    /\ hash[1].color = "blue"
    /\ ~PartInvalid(hash[1])
    /\ PartInvalid(hash[2])
    /\ distributions[1].color = "red"
    /\ distributions[1].values[1] = FLOOR_PROBABILITY_EPSILON

\* C20: after an accepted fragment is loaded, at the creation of a widget
\* with the URL state enabled or when the browser is sent to it, the widget
\* holds six distributions, one per expected
\* colour; a colour the fragment names has the decoded values, any other the
\* default ramp; the active index is 0 and only the active distribution is
\* visible.
C20_AcceptedFragmentGivesCompleteSet ==
    [][/\ (hash' \in AcceptedFragments /\ HashChange) => CompleteSet'
       /\ (enableUrlState /\ hash \in AcceptedFragments
               /\ CreateInteractiveWidget)
            => CompleteSet']_vars

\* a widget was sent to a fragment that names red only
C20_Witness ==
    /\ widget = "created"
    /\ events > 0
    /\ Len(hash) = 1
    /\ hash[1].color = "red"
    /\ Len(distributions) = Len(validColors)
    /\ distributions[1].color = "red"
    /\ distributions[1].values[1] = FLOOR_PROBABILITY_EPSILON
    /\ distributions[1].values[numPeriods] = ProbabilityOne
    /\ distributions[2] = Distribution("blue", initialValues)
    /\ activeDistributionIndex = 0
    /\ isDrawing

\* the comparison of the call with its two candidates exchanged
SwappedComparison ==
    comparePredictions(call.prediction2, call.predProb2, call.prediction1,
                       call.predProb1, call.truth, call.truthProb)

SwappedWinner(winning) ==
    CASE winning = "prediction1" -> "prediction2"
      [] winning = "prediction2" -> "prediction1"
      [] OTHER -> winning

\* 1 / factor for a factor kept by its exponent
Inverse(factor) == IF factor.k = "exp" THEN Exp(0 - factor.v) ELSE factor

\* C24: when comparePredictions returns, the call with the two candidates
\* exchanged returns too, with the two scores exchanged, the winner exchanged
\* (a tie stays a tie) and, when both scores are finite, the gap negated and
\* the factor inverted; otherwise gap and factor are null in both.
C24_CompareAntisymmetric ==
    CompareReturned =>
        /\ SwappedComparison.tag = "return"
        /\ SwappedComparison.value.prediction1.logScore
              = ret.value.prediction2.logScore
        /\ SwappedComparison.value.prediction2.logScore
              = ret.value.prediction1.logScore
        /\ SwappedComparison.value.winning = SwappedWinner(ret.value.winning)
        /\ IF BothFinite
           THEN /\ SwappedComparison.value.gap = FNeg(ret.value.gap)
                /\ SwappedComparison.value.factor = Inverse(ret.value.factor)
           ELSE /\ SwappedComparison.value.gap = Null
                /\ SwappedComparison.value.factor = Null

C24_Witness ==
    /\ CompareReturned
    /\ BothFinite
    /\ ret.value.winning = "prediction1"
    /\ FLt(Finite(0), ret.value.gap)
    /\ SwappedComparison.value.winning = "prediction2"
    /\ FLt(SwappedComparison.value.gap, Finite(0))

\* C30: a call of calculateLogScore that returns gives a finite number or
\* +Infinity, never NaN and never -Infinity.
C30_NeverNaN ==
    (LogScoreCalled /\ ret.tag = "return") => ret.value.k \in {"num", "inf"}

----------------------------------------------------------------------------
(* The median of a distribution, as drawGrid and the median tests compute   *)
(* it.  The masses are whole numbers of a unit; the cumulative mass is      *)
(* doubled where it is compared with targetMass = totalMass / 2, so that    *)
(* the halved total needs no fraction.                                      *)

\* The arrays the median is computed of have at most MaxBins values
MaxBins == 3

\* the values of the arrays: negative, zero and positive masses
MedianMasses == {0 - 1, 0, 1, 2, 3}

MedianArrays == UNION {[1..n -> MedianMasses] : n \in 0..MaxBins}

RECURSIVE MedianLoop(_, _, _)
\* the loop from index i on, cumulativeMass being the sum of the values
\* before i; medianIndex stays 0 when the loop ends without a break
MedianLoop(values, i, cumulativeMass) ==
    IF i >= Len(values) THEN 0
    ELSE IF 2 * (cumulativeMass + values[i + 1]) >= Sum(values) THEN i
    ELSE MedianLoop(values, i + 1, cumulativeMass + values[i + 1])

\* calculateMedianIndex without the test of the total mass
calculateMedianIndex_NoMassTest(values) == MedianLoop(values, 0, 0)

calculateMedianIndex(values) ==
    IF Sum(values) <= 0 THEN 0 - 1 ELSE MedianLoop(values, 0, 0)

CallCalculateMedianIndex ==
    /\ pc = "idle"
    /\ \E values \in MedianArrays :
          /\ call' = [fn |-> "calculateMedianIndex", values |-> values]
          /\ ret' = Return(calculateMedianIndex(values))
    /\ pc' = "returned"
    /\ UNCHANGED <<widgetVars, distributionWidgetVars>>

MedianNext == CallCalculateMedianIndex

MedianSpec == Init /\ [][MedianNext]_vars

MedianCalled == pc = "returned" /\ call.fn = "calculateMedianIndex"

\* the sum of values[0..i]
Cumulative(values, i) == Sum(SubSeq(values, 1, i + 1))

\* C21: the median index is -1 when the total mass is at most 0 (the empty
\* array included); otherwise it is an index of the array, the smallest one
\* at which the cumulative sum is at least half of the total mass.
C21_MedianIndex ==
    MedianCalled =>
        IF Sum(call.values) <= 0
        THEN ret.value = 0 - 1
        ELSE /\ ret.value \in 0..(Len(call.values) - 1)
             /\ 2 * Cumulative(call.values, ret.value) >= Sum(call.values)
             /\ \A i \in 0..(ret.value - 1) :
                    2 * Cumulative(call.values, i) < Sum(call.values)

C21_Witness ==
    /\ MedianCalled
    /\ Sum(call.values) > 0
    /\ ret.value = 2
    /\ call.values[1] < 0

\* a step in which performRenormalization runs on the distributions of the
\* widget and goes past its early returns
RenormalizationStep ==
    /\ Renormalizes(distributions, activeDistributionIndex)
    /\ \/ RenormalizeBackgroundDistributions
       \/ (isDrawing /\ HandlePointerUp)

\* the indices of the visible background distributions with a positive mass
ScaledBackgrounds ==
    {k \in IndexOf(distributions) :
        /\ k # activeDistributionIndex
        /\ k \in DOMAIN visibilityState
        /\ visibilityState[k]
        /\ Sum(distributions[k + 1].values) > 0}

\* the total mass of the active distribution
ActiveTotalMass == Sum(distributions[activeDistributionIndex + 1].values)

TimerFires ==
    \E timer \in timers :
        /\ timer.delay = 0
        /\ timers' = timers \ {timer}

\* Time goes on while a timer waits, and the event loop runs the callback of
\* a timer that is due
WidgetFairSpec ==
    WidgetSpec /\ WF_vars(TimePasses) /\ WF_timers(TimerFires)

\* a pointer event or a call of the widget's methods that changes the
\* distributions
DistributionsChanged ==
    /\ distributions' # distributions
    /\ \/ HandlePointerDown
       \/ HandlePointerMove
       \/ HandlePointerUp
       \/ SetActiveDistribution
       \/ RenormalizeBackgroundDistributions

\* the fragment of the page is written while no user event is handled
UrlWritten == events' = events /\ hash' # hash

\* C23: at most one timer of debouncedUrlUpdate is active at any time; a
\* change leaves one timer, the one urlUpdateTimeout names, with the whole
\* delay of 500 ms ahead, whatever timer was active before; the URL is
\* written only when that timer is due, the write encodes the distributions
\* of that moment and leaves no timer, so that a burst of changes gives one
\* write; and with the URL state enabled an active timer leads to a written
\* URL that encodes the distributions.
C23_DebouncedUrlUpdate ==
    /\ [](Cardinality(timers) <= 1)
    /\ [][DistributionsChanged =>
             timers' = {[id |-> urlUpdateTimeout', delay |-> UrlUpdateDelay]}
         ]_vars
    /\ [][UrlWritten =>
             /\ enableUrlState
             /\ timers = {[id |-> urlUpdateTimeout, delay |-> 0]}
             /\ timers' = {}
             /\ hash' = SerializedFragment(distributions')
         ]_vars
    /\ (enableUrlState /\ timers # {})
          ~> (timers = {} /\ hash = SerializedFragment(distributions))

\* the timer has fired after two changes of the distributions and the URL
\* holds the distributions as they are
C23_Witness ==
    /\ widget = "created"
    /\ events = 2
    /\ isDrawing
    /\ urlUpdateTimeout # 0
    /\ timers = {}
    /\ hash # <<>>
    /\ hash = SerializedFragment(distributions)
    /\ distributions # DefaultDistributions

----------------------------------------------------------------------------
(* The methods createInteractiveWidget returns that add, remove and switch  *)
(* distributions, set their visibility and load a fragment                  *)

\* the colours addDistribution is called with; its mass is always 100
AddedColors == {"green", "pink"}

\* the colours setActiveDistributionByColor is called with
SwitchColors == {"red", "magenta"}

\* the indices the visibility methods are called with
VisibilityIndices == {0, Len(validColors) - 1, Len(validColors)}

\* object after object[key] = value
WithKey(object, key, value) ==
    [k \in (DOMAIN object) \cup {key} |-> IF k = key THEN value ELSE object[k]]

\* widget.addDistribution(color, mass)
AddDistribution ==
    /\ UserEvent
    /\ \E color \in AddedColors :
          LET newIndex == Len(distributions)
              originals == WithKey(originalValues, newIndex, initialValues)
              scaled ==
                  autoScaleDistribution(
                      Restored(Append(distributions,
                                      Distribution(color, initialValues)),
                               originals, {}),
                      newIndex)
          IN  /\ RenormalizationWithinLimit(scaled, newIndex)
              /\ distributions' = performRenormalization(scaled, newIndex)
              /\ activeDistributionIndex' = newIndex
              /\ visibilityState' = WithKey(visibilityState, newIndex, TRUE)
              /\ originalValues' = originals
    /\ guidelineManuallySet' = FALSE
    /\ debouncedUrlUpdate
    /\ UNCHANGED <<hash, userModifiedValues, isDrawing, isDraggingGuideline,
                   lastX, lastY>>

\* array.splice(index, 1) for an index of the array: the array it leaves
Spliced(array, index) ==
    [n \in 1..(Len(array) - 1) |-> IF n <= index THEN array[n] ELSE array[n + 1]]

\* What removeDistribution leaves of visibilityState or originalValues: the
\* key index is deleted, every key above it is copied to the key below into
\* a new object, and Object.assign puts the new object over the old one,
\* which keeps the keys the new object does not have.
Reindexed(object, index) ==
    [k \in ((DOMAIN object) \ {index})
              \cup {IF old > index THEN old - 1 ELSE old :
                       old \in (DOMAIN object) \ {index}} |->
        IF k >= index /\ (k + 1) \in DOMAIN object THEN object[k + 1]
        ELSE object[k]]

\* widget.removeDistribution(index) for the index of a distribution
RemoveDistributionAt(index) ==
    /\ UserEvent
    /\ index \in IndexOf(distributions)
    /\ LET remaining == Spliced(distributions, index)
           active == IF activeDistributionIndex >= Len(remaining)
                     THEN Len(remaining) - 1
                     ELSE activeDistributionIndex
       IN  /\ RenormalizationWithinLimit(remaining, active)
           /\ distributions' = performRenormalization(remaining, active)
           /\ activeDistributionIndex' = active
    /\ visibilityState' = Reindexed(visibilityState, index)
    /\ originalValues' = Reindexed(originalValues, index)
    /\ debouncedUrlUpdate
    /\ UNCHANGED <<hash, userModifiedValues, guidelineManuallySet, isDrawing,
                   isDraggingGuideline, lastX, lastY>>

RemoveDistribution ==
    \E index \in IndexOf(validColors) \cup {Len(validColors)} :
        RemoveDistributionAt(index)

\* widget.clearAllDistributions()
ClearAllDistributions ==
    /\ UserEvent
    /\ distributions' = <<>>
    /\ activeDistributionIndex' = 0 - 1
    /\ visibilityState' = <<>>
    /\ originalValues' = <<>>
    /\ userModifiedValues' = {}
    /\ debouncedUrlUpdate
    /\ UNCHANGED <<hash, guidelineManuallySet, isDrawing, isDraggingGuideline,
                   lastX, lastY>>

\* distributions.findIndex(dist => dist.color === color)
FindIndex(dists, color) ==
    IF HasColor(dists, color)
    THEN (CHOOSE n \in 1..Len(dists) :
             /\ dists[n].color = color
             /\ \A m \in 1..(n - 1) : dists[m].color # color) - 1
    ELSE 0 - 1

\* widget.setActiveDistributionByColor(color)
SetActiveDistributionByColor ==
    /\ UserEvent
    /\ \E color \in SwitchColors :
          IF FindIndex(distributions, color) # 0 - 1
          THEN /\ RenormalizationWithinLimit(
                      Switched(FindIndex(distributions, color)),
                      FindIndex(distributions, color))
               /\ activeDistributionIndex' = FindIndex(distributions, color)
               /\ guidelineManuallySet' = FALSE
               /\ distributions' =
                     performRenormalization(
                         Switched(FindIndex(distributions, color)),
                         FindIndex(distributions, color))
               /\ visibilityState' =
                     WithKey(visibilityState,
                             FindIndex(distributions, color), TRUE)
               /\ debouncedUrlUpdate
          ELSE UNCHANGED <<activeDistributionIndex, guidelineManuallySet,
                           distributions, visibilityState, timerVars>>
    /\ UNCHANGED <<hash, originalValues, userModifiedValues, isDrawing,
                   isDraggingGuideline, lastX, lastY>>

\* widget.setDistributionVisibility(index, visible)
SetDistributionVisibility ==
    /\ UserEvent
    /\ \E index \in VisibilityIndices, visible \in BOOLEAN :
          IF index \in DOMAIN visibilityState
          THEN /\ visibilityState' = WithKey(visibilityState, index, visible)
               /\ debouncedUrlUpdate
          ELSE UNCHANGED <<visibilityState, timerVars>>
    /\ UNCHANGED <<hash, distributions, activeDistributionIndex,
                   originalValues, userModifiedValues, guidelineManuallySet,
                   isDrawing, isDraggingGuideline, lastX, lastY>>

\* widget.toggleDistributionVisibility(index)
ToggleDistributionVisibility ==
    /\ UserEvent
    /\ \E index \in VisibilityIndices :
          IF index \in DOMAIN visibilityState
          THEN /\ visibilityState' =
                     WithKey(visibilityState, index, ~visibilityState[index])
               /\ debouncedUrlUpdate
          ELSE UNCHANGED <<visibilityState, timerVars>>
    /\ UNCHANGED <<hash, distributions, activeDistributionIndex,
                   originalValues, userModifiedValues, guidelineManuallySet,
                   isDrawing, isDraggingGuideline, lastX, lastY>>

\* widget.loadFromUrlState(fragment): the hash of the page is set to the
\* fragment, parsed, and set back; each of the two assignments that changes
\* the hash leaves a hashchange event for the event loop
LoadFromUrlState ==
    /\ EventHandled
    /\ \E fragment \in Fragments :
          IF enableUrlState
          THEN /\ hashChangeTasks' =
                     hashChangeTasks + (IF fragment # hash THEN 2 ELSE 0)
               /\ IF UrlStateOf[fragment].restored
                  THEN ApplyUrlState(UrlStateOf[fragment].distributions)
                  ELSE UNCHANGED <<distributions, originalValues,
                                   visibilityState, activeDistributionIndex,
                                   guidelineManuallySet>>
          ELSE UNCHANGED <<hashChangeTasks, distributions, originalValues,
                           visibilityState, activeDistributionIndex,
                           guidelineManuallySet>>
    /\ UNCHANGED <<hash, userModifiedValues, isDrawing, isDraggingGuideline,
                   lastX, lastY, timerVars>>

\* the event loop runs the listeners of popstate and hashchange for an event
\* that an assignment to the hash has left: they parse the hash the page has
\* by then
HashChangeListeners ==
    /\ widget = "created"
    /\ enableUrlState
    /\ hashChangeTasks > 0
    /\ hashChangeTasks' = hashChangeTasks - 1
    /\ IF parseUrlState(hash).restored
       THEN ApplyUrlState(parseUrlState(hash).distributions)
       ELSE UNCHANGED <<distributions, originalValues, visibilityState,
                        activeDistributionIndex, guidelineManuallySet>>
    /\ UNCHANGED <<callVars, distributionWidgetVars, widget, enableUrlState, hash, userModifiedValues,
                   isDrawing, isDraggingGuideline, lastX, lastY, timerVars,
                   events>>

WidgetApiNext ==
    \/ CreateInteractiveWidget
    \/ HashChange
    \/ HandlePointerDown
    \/ AddDistribution
    \/ RemoveDistribution
    \/ ClearAllDistributions
    \/ SetActiveDistribution
    \/ SetActiveDistributionByColor
    \/ SetDistributionVisibility
    \/ ToggleDistributionVisibility
    \/ LoadFromUrlState
    \/ HashChangeListeners

WidgetApiSpec == WidgetInit /\ [][WidgetApiNext]_vars

\* C25: in every state of a widget activeDistributionIndex is -1 when there
\* are no distributions and otherwise the index of a distribution, and
\* setActiveDistribution with an index out of range changes nothing.
C25_ActiveIndexInRange ==
    /\ [](widget = "created" =>
             IF Len(distributions) = 0
             THEN activeDistributionIndex = 0 - 1
             ELSE activeDistributionIndex \in IndexOf(distributions))
    /\ [][(SetActiveDistribution
              /\ \A index \in SwitchIndices \cap IndexOf(distributions) :
                    activeDistributionIndex' # index)
             => UNCHANGED <<distributions, activeDistributionIndex,
                            visibilityState, originalValues,
                            userModifiedValues, timerVars>>]_vars

\* the index a distribution has after the distribution of index removed is
\* gone
Shifted(k, removed) == IF k > removed THEN k - 1 ELSE k

\* C26: removeDistribution(index) of a distribution other than the active
\* one leaves a distribution of the same colour active, and every remaining
\* distribution has, at its new index, the visibility flag, the stored
\* original values and the user-modified flag it had at its old index.
C26_RemovalKeepsTheRest ==
    [][\A index \in IndexOf(distributions) :
          (/\ RemoveDistributionAt(index)
           /\ activeDistributionIndex \in IndexOf(distributions)
           /\ index # activeDistributionIndex)
          => /\ activeDistributionIndex' \in IndexOf(distributions')
             /\ distributions'[activeDistributionIndex' + 1].color
                   = distributions[activeDistributionIndex + 1].color
             /\ \A k \in IndexOf(distributions) \ {index} :
                   /\ (k \in DOMAIN visibilityState)
                         => /\ Shifted(k, index) \in DOMAIN visibilityState'
                            /\ visibilityState'[Shifted(k, index)]
                                  = visibilityState[k]
                   /\ (k \in DOMAIN originalValues)
                         => /\ Shifted(k, index) \in DOMAIN originalValues'
                            /\ originalValues'[Shifted(k, index)]
                                  = originalValues[k]
                   /\ (Shifted(k, index) \in userModifiedValues')
                         = (k \in userModifiedValues)
      ]_vars

\* C27: the keys of the visibility state are exactly the indices of the
\* distributions, and setDistributionVisibility and
\* toggleDistributionVisibility change no entry of an index that has no
\* distribution.
C27_VisibilityKeys ==
    /\ [](widget = "created" => DOMAIN visibilityState = IndexOf(distributions))
    /\ [][(SetDistributionVisibility \/ ToggleDistributionVisibility)
             => \A k \in (DOMAIN visibilityState) \ IndexOf(distributions) :
                   visibilityState'[k] = visibilityState[k]]_vars

\* C28: the listeners of popstate and hashchange that run for the events
\* loadFromUrlState has left do not change the distributions it has loaded.
C28_LoadedStateStays ==
    [][HashChangeListeners => distributions' = distributions]_vars

----------------------------------------------------------------------------
(* createDistributionWidget: one distribution drawn with the pointer *)

\* an empty slot of a JavaScript array, which reads as undefined
Hole == 0 - 1

\* Array(numPeriods).fill(0.5)
FilledHalf == [n \in 1..numPeriods |-> ProbabilityOne \div 2]

\* the arrays a caller supplies as options.initialDistribution or to
\* setDistribution: no value, one value per year, one per period, one more
SuppliedDistributions ==
    {<<>>,
     [n \in 1..numYears |-> (n * ProbabilityOne) \div 10],
     initialValues,
     Append(initialValues, 0)}

\* options.initialDistribution, which may be left out
InitialDistributionOptions ==
    {[given |-> FALSE, values |-> <<>>]}
        \cup {[given |-> TRUE, values |-> values] :
                 values \in SuppliedDistributions}

\* pointer positions left of the plot, inside it and right of it
DrawX == {0 - 1, numPeriods \div 2, numPeriods}

\* canvasToData of createDistributionWidget
DistributionCanvasToData(x, y) ==
    [periodIndex |-> MathMax(0, MathMin(numPeriods - 1, x)),
     probability |-> MathMax(0, MathMin(ProbabilityOne, y))]

\* array after array[index] = value for every index from lowest to highest:
\* an assignment past the end makes the array longer and leaves the slots
\* between empty
Assigned(array, lowest, highest, value) ==
    [n \in 1..MathMax(Len(array), highest + 1) |->
        IF n - 1 >= lowest /\ n - 1 <= highest THEN value
        ELSE IF n <= Len(array) THEN array[n]
        ELSE Hole]

\* the distribution widget is made with its options: initialDistribution is
\* kept as it is when given, any options.interactive but false is
\* interactive
DistributionWidgetInit ==
    /\ NoCall
    /\ NoWidget
    /\ enableUrlState = TRUE
    /\ hash = <<>>
    /\ interactive \in BOOLEAN
    /\ \E option \in InitialDistributionOptions :
          distribution = IF option.given THEN option.values ELSE FilledHalf

\* a listener of the canvas or a method of the object
\* createDistributionWidget returns runs
DistributionWidgetEvent ==
    /\ events < MaxEvents
    /\ events' = events + 1
    /\ UNCHANGED <<callVars, widget, enableUrlState, hash, distributions,
                   activeDistributionIndex, visibilityState, originalValues,
                   userModifiedValues, guidelineManuallySet,
                   isDraggingGuideline, timerVars, hashChangeTasks,
                   interactive>>

\* handlePointerDown of createDistributionWidget
DistributionHandlePointerDown ==
    /\ DistributionWidgetEvent
    /\ \E x \in DrawX, y \in PointerY :
          IF ~interactive
          THEN UNCHANGED <<isDrawing, lastX, lastY, distribution>>
          ELSE /\ isDrawing' = TRUE
               /\ lastX' = x
               /\ lastY' = y
               /\ distribution' =
                     Assigned(distribution,
                              DistributionCanvasToData(x, y).periodIndex,
                              DistributionCanvasToData(x, y).periodIndex,
                              DistributionCanvasToData(x, y).probability)

\* handlePointerMove of createDistributionWidget: the stroke goes on along
\* a period or along a height
DistributionHandlePointerMove ==
    /\ DistributionWidgetEvent
    /\ IF ~isDrawing \/ ~interactive
       THEN UNCHANGED <<lastX, lastY, distribution>>
       ELSE \E x \in DrawX, y \in PointerY :
               /\ x = lastX \/ y = lastY
               /\ IF x = lastX /\ y = lastY
                  THEN UNCHANGED <<lastX, lastY, distribution>>
                  ELSE /\ distribution' =
                            Assigned(
                                distribution,
                                DistributionCanvasToData(MathMin(lastX, x), y).periodIndex,
                                DistributionCanvasToData(MathMax(lastX, x), y).periodIndex,
                                DistributionCanvasToData(x, y).probability)
                       /\ lastX' = x
                       /\ lastY' = y
    /\ UNCHANGED isDrawing

\* handlePointerUp of createDistributionWidget, for pointerup and
\* pointerleave
DistributionHandlePointerUp ==
    /\ DistributionWidgetEvent
    /\ isDrawing' = (IF interactive THEN FALSE ELSE isDrawing)
    /\ UNCHANGED <<lastX, lastY, distribution>>

\* widget.setDistribution(newDistribution)
SetDistribution ==
    /\ DistributionWidgetEvent
    /\ \E newDistribution \in SuppliedDistributions :
          distribution' = newDistribution
    /\ UNCHANGED <<isDrawing, lastX, lastY>>

\* widget.reset()
Reset ==
    /\ DistributionWidgetEvent
    /\ distribution' = FilledHalf
    /\ UNCHANGED <<isDrawing, lastX, lastY>>

DistributionWidgetNext ==
    \/ DistributionHandlePointerDown
    \/ DistributionHandlePointerMove
    \/ DistributionHandlePointerUp
    \/ SetDistribution
    \/ Reset

DistributionWidgetSpec ==
    DistributionWidgetInit /\ [][DistributionWidgetNext]_vars

\* C29: a pointer event of the distribution widget leaves the distribution
\* as long as it was, and every element it changes is an element the array
\* had and gets a value from 0 to 1.
C29_DrawingKeepsLength ==
    [][(\/ DistributionHandlePointerDown
        \/ DistributionHandlePointerMove
        \/ DistributionHandlePointerUp)
          => /\ Len(distribution') = Len(distribution)
             /\ \A n \in 1..Len(distribution') :
                   (n > Len(distribution) \/ distribution'[n] # distribution[n])
                      => /\ n <= Len(distribution)
                         /\ distribution'[n] \in 0..ProbabilityOne
      ]_vars

====
